---- MODULE Spec2Model ----
(***************************************************************************)
(* Confluence -> File Search synchronisation core of chatty-boxy:          *)
(* the ChangeDetector (src/sync/change-detector.js), the record store      *)
(* (DatabaseManager) and the SyncService orchestration.                    *)
(***************************************************************************)
EXTENDS Integers, Sequences, FiniteSets, TLC

(***************************************************************************)
(* Bounds of the model.                                                    *)
(***************************************************************************)
MaxVersion == 2
MaxInputLen == 2
MaxRuns == 2
MaxFaults == 1

PageIds == {"1", "2", "3"}
SpaceKeys == {"DEV", "PROD"}
Titles == {"Old Title", "New Title"}
Versions == 1..MaxVersion

(***************************************************************************)
(* Data: a remote page (id, space.key, title, version.number) and a row of *)
(* the synced_pages table.                                                 *)
(***************************************************************************)
Page == [id : PageIds, space : SpaceKeys, title : Titles, version : Versions]

NoRow == [page_id |-> "none"]

\* PageStorage.sanitizeFilename on the titles of the model.
sanitizeFilename(title) ==
    CASE title = "Old Title" -> "old-title"
      [] title = "New Title" -> "new-title"
      [] OTHER -> ""

\* String.toLowerCase on the space keys of the model.
toLowerCase(key) ==
    CASE key = "DEV" -> "dev"
      [] key = "PROD" -> "prod"
      [] OTHER -> key

\* PageStorage.generateFilename: {space-key}_{page-id}_{title}
generateFilename(page) ==
    <<toLowerCase(page.space), page.id, sanitizeFilename(page.title)>>

\* PageStorage.getPageFilePath: contentDir/<filename>.md
getPageFilePath(page) == <<"content", generateFilename(page), "md">>

\* A file_path that is empty.
NoPath == <<>>

\* The row SyncService.updateDatabase upserts for a processed page.
RowOf(page, filePath) ==
    [page_id |-> page.id, space_key |-> page.space, title |-> page.title,
     version |-> page.version, file_path |-> filePath]

Row == {RowOf(p, getPageFilePath(q)) : p \in Page, q \in Page}

RECURSIVE SetToSeq(_)
SetToSeq(S) ==
    IF S = {} THEN <<>>
    ELSE LET x == CHOOSE y \in S : TRUE IN <<x>> \o SetToSeq(S \ {x})

Range(s) == {s[i] : i \in 1..Len(s)}

BoundedSeq(S, n) == UNION {[1..k -> S] : k \in 0..n}

VARIABLES
    remote,             \* the Confluence content: a set of pages, one per id
    syncSpaceKeys,      \* options.spaceKeys || config.confluence.spaceKeys
    externalStores,     \* the File Search stores the Gemini API holds: their names
    synced_pages,       \* table synced_pages: a set of rows
    sync_history,       \* table sync_history: the run ledger, row i has id i
    file_search_stores, \* table file_search_stores: the cached store reference
    files,              \* the content directory: the paths of the files on disk
    pc,                 \* where sync() stands ("idle": no run in progress)
    force,              \* options.forceFullSync of the run in progress
    syncId,             \* the id startSync returned
    allPages,           \* sync(): allPages
    pagesToProcess,     \* sync(): pagesToProcess
    filesToUpload,      \* sync(): filesToUpload
    stats,              \* sync(): stats (counts and the error list)
    fetched,            \* per space key, what its fetch gave in this run
    processLog,         \* the ids of the pages Step 5 took up, in order
    effects,            \* what this run wrote: files, uploads, rows, deletions
    rowsAtStart,        \* synced_pages when the run started
    runFaults,          \* the failures met by the run in progress
    faults,             \* number of failures met so far
    pendingUpload,      \* ids of pages whose last upload failed
    runs,               \* one summary per finished run, with sync()'s result
    detOp,              \* detector call: which method was called ("none" when idle)
    detIn,              \* detector call: the confluencePages argument
    detOut              \* detector call: the value returned

detVars == <<detOp, detIn, detOut>>
storeVars == <<synced_pages, sync_history, file_search_stores, files>>
runVars == <<pc, force, syncId, allPages, pagesToProcess, filesToUpload, stats,
             fetched, processLog, effects, rowsAtStart, runFaults>>
envVars == <<remote, syncSpaceKeys, externalStores>>
histVars == <<faults, pendingUpload, runs>>
vars == <<envVars, storeVars, runVars, histVars, detVars>>

\* DatabaseManager.upsertFileSearchStore: INSERT .. ON CONFLICT(name) DO UPDATE
\* of last_used only; getFileSearchStore: SELECT * .. LIMIT 1.
upsertFileSearchStore(table, store) ==
    IF \E r \in table : r.name = store.name THEN table
    ELSE table \cup {[name |-> store.name]}

NoStore == [name |-> <<>>]

getFileSearchStore(table) ==
    IF table = {} THEN NoStore ELSE CHOOSE r \in table : TRUE

(***************************************************************************)
(* DatabaseManager: reads of synced_pages.                                 *)
(***************************************************************************)
TableGet(table, pageId) ==
    IF \E r \in table : r.page_id = pageId
    THEN CHOOSE r \in table : r.page_id = pageId
    ELSE NoRow

getPage(pageId) == TableGet(synced_pages, pageId)

getAllPages == SetToSeq(synced_pages)

getPagesBySpace(spaceKey) ==
    SetToSeq({r \in synced_pages : r.space_key = spaceKey})

\* upsertPage as a plain INSERT into a table without its primary key.
upsertPage_insert(table, row) == table \cup {row}

\* INSERT ... ON CONFLICT(page_id) DO UPDATE
upsertPage(table, row) ==
    {r \in table : r.page_id # row.page_id} \cup {row}

\* DELETE FROM synced_pages WHERE page_id = ?
deletePage(table, pageId) == {r \in table : r.page_id # pageId}

(***************************************************************************)
(* ChangeDetector.                                                         *)
(***************************************************************************)
hasPageChanged_versionOnly(confluencePage, syncedPage) ==
    confluencePage.version > syncedPage.version

hasPageChanged_orEqual(confluencePage, syncedPage) ==
    \/ confluencePage.version >= syncedPage.version
    \/ confluencePage.title # syncedPage.title

hasPageChanged(confluencePage, syncedPage) ==
    \/ confluencePage.version > syncedPage.version
    \/ confluencePage.title # syncedPage.title

\* The classification of one page of the scan: "new", "updated" or "unchanged".
Classify(page) ==
    LET syncedPage == getPage(page.id) IN
    IF syncedPage = NoRow THEN "new"
    ELSE IF hasPageChanged(page, syncedPage) THEN "updated"
    ELSE "unchanged"

\* The loop of detectChanges putting each changed page at the front.
RECURSIVE detectChangesLoop_prepend(_, _, _)
detectChangesLoop_prepend(confluencePages, changedPages, counts) ==
    IF confluencePages = <<>> THEN [changedPages |-> changedPages, stats |-> counts]
    ELSE LET page == Head(confluencePages)
             c == Classify(page)
         IN detectChangesLoop_prepend(
                Tail(confluencePages),
                IF c = "unchanged" THEN changedPages ELSE <<page>> \o changedPages,
                [counts EXCEPT ![c] = @ + 1])

RECURSIVE detectChangesLoop(_, _, _)
detectChangesLoop(confluencePages, changedPages, counts) ==
    IF confluencePages = <<>> THEN [changedPages |-> changedPages, stats |-> counts]
    ELSE LET page == Head(confluencePages)
             c == Classify(page)
         IN detectChangesLoop(
                Tail(confluencePages),
                IF c = "unchanged" THEN changedPages ELSE Append(changedPages, page),
                [counts EXCEPT ![c] = @ + 1])

detectChangesFull(confluencePages) ==
    detectChangesLoop(confluencePages, <<>>,
        [total |-> Len(confluencePages), new |-> 0, updated |-> 0, unchanged |-> 0])

detectChanges(confluencePages) == detectChangesFull(confluencePages).changedPages

\* [...new Set(confluencePages.map(p => p.space.key))]: each key once, in the
\* order of its first occurrence.  FirstOccurrences is the set of positions
\* at which a key appears for the first time.
FirstOccurrences(confluencePages) ==
    {i \in 1..Len(confluencePages) :
        \A j \in 1..(i - 1) : confluencePages[j].space # confluencePages[i].space}

RECURSIVE UniqueKeys(_, _)
UniqueKeys(confluencePages, positions) ==
    IF positions = {} THEN <<>>
    ELSE LET i == CHOOSE k \in positions : \A j \in positions : k <= j IN
         <<confluencePages[i].space>> \o UniqueKeys(confluencePages, positions \ {i})

RECURSIVE FlattenBySpace(_)
FlattenBySpace(spaceKeys) ==
    IF spaceKeys = <<>> THEN <<>>
    ELSE getPagesBySpace(Head(spaceKeys)) \o FlattenBySpace(Tail(spaceKeys))

NotInConfluence(syncedPages, confluencePages) ==
    LET confluencePageIds == {confluencePages[i].id : i \in 1..Len(confluencePages)}
    IN SelectSeq(syncedPages, LAMBDA r : r.page_id \notin confluencePageIds)

detectDeletedPages_unscoped(confluencePages) ==
    NotInConfluence(getAllPages, confluencePages)

detectDeletedPages_noDedup(confluencePages) ==
    LET spaceKeys == [i \in 1..Len(confluencePages) |-> confluencePages[i].space]
    IN NotInConfluence(FlattenBySpace(spaceKeys), confluencePages)

detectDeletedPages(confluencePages) ==
    LET spaceKeys == UniqueKeys(confluencePages, FirstOccurrences(confluencePages))
        syncedPages == FlattenBySpace(spaceKeys)
    IN NotInConfluence(syncedPages, confluencePages)

\* detectDeletedPagesInSpace reading the rows of every space.
detectDeletedPagesInSpace_allSpaces(spaceKey, confluencePages) ==
    NotInConfluence(getAllPages, confluencePages)

detectDeletedPagesInSpace(spaceKey, confluencePages) ==
    NotInConfluence(getPagesBySpace(spaceKey), confluencePages)

(***************************************************************************)
(* ConfluenceClient.getAllPages: the paginated fetch of one space.         *)
(***************************************************************************)
maxPagesPerSync == 500
DefaultLimit == 100

Min(a, b) == IF a < b THEN a ELSE b

\* What GET /content answers for a space: its pages, in the server's order.
RemoteList(spaceKey) == SetToSeq({p \in remote : p.space = spaceKey})

RECURSIVE getAllPagesLoop(_, _, _, _, _)
getAllPagesLoop(source, limit, pages, start, hasMore) ==
    IF hasMore /\ Len(pages) < maxPagesPerSync
    THEN LET results == SubSeq(source, start + 1, Min(start + limit, Len(source)))
         IN getAllPagesLoop(source, limit, pages \o results, start + limit,
                            Len(results) = limit)
    ELSE pages

ConfluenceGetAllPages(spaceKey, limit) ==
    getAllPagesLoop(RemoteList(spaceKey), limit, <<>>, 0, TRUE)

(***************************************************************************)
(* UploadManager.uploadFilesWithRetry.  failsBefore[i] is the number of    *)
(* attempts on file i that fail before uploadFile first succeeds.          *)
(***************************************************************************)
NoVal == ""

ErrorEntry(stage, pageId, spaceKey, file, attempts) ==
    [stage |-> stage, pageId |-> pageId, spaceKey |-> spaceKey,
     file |-> file, attempts |-> attempts]

\* The retry loop with one attempt too many (attempt <= maxRetries).
RECURSIVE retryLoop_extraAttempt(_, _, _, _, _, _)
retryLoop_extraAttempt(file, nfail, maxRetries, attempt, success, results) ==
    IF attempt <= maxRetries /\ ~success
    THEN LET a == attempt + 1
             counted == [results EXCEPT !.calls = @ + 1]
         IN IF a > nfail
            THEN retryLoop_extraAttempt(file, nfail, maxRetries, a, TRUE,
                    [counted EXCEPT !.successful = @ + 1,
                                    !.uploaded = Append(@, file)])
            ELSE IF a >= maxRetries
            THEN retryLoop_extraAttempt(file, nfail, maxRetries, a, FALSE,
                    [counted EXCEPT !.failed = @ + 1,
                        !.errors = Append(@,
                            ErrorEntry("upload", NoVal, NoVal, file.displayName, a))])
            ELSE retryLoop_extraAttempt(file, nfail, maxRetries, a, FALSE, counted)
    ELSE results

\* The while loop of uploadFilesWithRetry for one file.
RECURSIVE retryLoop(_, _, _, _, _, _)
retryLoop(file, nfail, maxRetries, attempt, success, results) ==
    IF attempt < maxRetries /\ ~success
    THEN LET a == attempt + 1
             counted == [results EXCEPT !.calls = @ + 1]
         IN IF a > nfail
            THEN retryLoop(file, nfail, maxRetries, a, TRUE,
                    [counted EXCEPT !.successful = @ + 1,
                                    !.uploaded = Append(@, file)])
            ELSE IF a >= maxRetries
            THEN retryLoop(file, nfail, maxRetries, a, FALSE,
                    [counted EXCEPT !.failed = @ + 1,
                        !.errors = Append(@,
                            ErrorEntry("upload", NoVal, NoVal, file.displayName, a))])
            ELSE retryLoop(file, nfail, maxRetries, a, FALSE, counted)
    ELSE results

RECURSIVE uploadLoop(_, _, _, _, _)
uploadLoop(uploadList, failsBefore, maxRetries, i, results) ==
    IF i > Len(uploadList) THEN results
    ELSE uploadLoop(uploadList, failsBefore, maxRetries, i + 1,
            retryLoop(uploadList[i], failsBefore[i], maxRetries, 0, FALSE, results))

uploadFilesWithRetry(uploadList, failsBefore, maxRetries) ==
    uploadLoop(uploadList, failsBefore, maxRetries, 1,
        [total |-> Len(uploadList), successful |-> 0, failed |-> 0,
         errors |-> <<>>, uploaded |-> <<>>, calls |-> 0])

(***************************************************************************)
(* UploadManager.pollOperation.  An operation is its done flag and its     *)
(* error: NoError for null, otherwise the error's message (NoVal for an    *)
(* error object without a message).  responses[k] is what the k-th status  *)
(* query answers, and after the last of them the operation stays pending;  *)
(* latency is the time a status query takes.                               *)
(***************************************************************************)
pollInterval == 2000

maxPollTime == 300000

NoError == "null"

Operation(done, error) == [throws |-> FALSE, done |-> done, error |-> error]

QueryFailure == [throws |-> TRUE, done |-> FALSE, error |-> NoError]

Returned(operation, queries) ==
    [kind |-> "return", message |-> NoVal, detail |-> NoVal,
     operation |-> operation, queries |-> queries]

Thrown(message, detail, operation, queries) ==
    [kind |-> "throw", message |-> message, detail |-> detail,
     operation |-> operation, queries |-> queries]

\* The pending iterations with the timeout test comparing against twice
\* maxPollTime.
PendingUntilTimeout_doubled(latency, elapsed, queries) ==
    Thrown("Operation timed out after 5 minutes", NoVal, Operation(FALSE, NoError),
           queries + (2 * maxPollTime - elapsed) \div (pollInterval + latency) + 1)

\* The iterations of the loop once every further answer is a pending
\* operation: each takes pollInterval + latency, and the first one that
\* starts later than maxPollTime throws.
PendingUntilTimeout(latency, elapsed, queries) ==
    Thrown("Operation timed out after 5 minutes", NoVal, Operation(FALSE, NoError),
           queries + (maxPollTime - elapsed) \div (pollInterval + latency) + 1)

\* pollOperation returning the finished operation without looking at its error.
RECURSIVE pollOperation_noErrorCheck(_, _, _, _, _)
pollOperation_noErrorCheck(operation, responses, latency, elapsed, queries) ==
    IF ~operation.done
    THEN IF elapsed > maxPollTime
         THEN Thrown("Operation timed out after 5 minutes", NoVal, operation, queries)
         ELSE IF queries >= Len(responses)
         THEN PendingUntilTimeout(latency, elapsed, queries)
         ELSE LET r == responses[queries + 1]
              IN IF r.throws
                 THEN Thrown("Operation polling failed", "query error",
                             operation, queries + 1)
                 ELSE pollOperation_noErrorCheck(r, responses, latency,
                            elapsed + pollInterval + latency, queries + 1)
    ELSE Returned(operation, queries)

RECURSIVE pollOperation(_, _, _, _, _)
pollOperation(operation, responses, latency, elapsed, queries) ==
    IF ~operation.done
    THEN IF elapsed > maxPollTime
         THEN Thrown("Operation timed out after 5 minutes", NoVal, operation, queries)
         ELSE IF queries >= Len(responses)
         THEN PendingUntilTimeout(latency, elapsed, queries)
         ELSE LET r == responses[queries + 1]
              IN IF r.throws
                 THEN Thrown("Operation polling failed", "query error",
                             operation, queries + 1)
                 ELSE pollOperation(r, responses, latency,
                            elapsed + pollInterval + latency, queries + 1)
    ELSE IF operation.error # NoError
    THEN Thrown("Operation failed",
                IF operation.error = NoVal THEN "Unknown error" ELSE operation.error,
                operation, queries)
    ELSE Returned(operation, queries)

(***************************************************************************)
(* UploadManager.uploadFile and uploadFiles.  An attempt is what one call  *)
(* of uploadFile meets: whether starting the upload is rejected, the       *)
(* operation the start returns, and the answers and latency of its status  *)
(* queries.                                                                *)
(***************************************************************************)
Attempt(startThrows, operation, responses, latency) ==
    [startThrows |-> startThrows, operation |-> operation,
     responses |-> responses, latency |-> latency]

UploadAttempts ==
    [ok |-> Attempt(FALSE, Operation(FALSE, NoError),
                    <<Operation(TRUE, NoError)>>, 0),
     timeout |-> Attempt(FALSE, Operation(FALSE, NoError), <<>>, 0),
     indexing |-> Attempt(FALSE, Operation(FALSE, NoError),
                    <<Operation(TRUE, "Processing failed")>>, 0),
     transport |-> Attempt(TRUE, Operation(FALSE, NoError), <<>>, 0),
     polling |-> Attempt(FALSE, Operation(FALSE, NoError), <<QueryFailure>>, 0)]

FailureCauses == {"timeout", "indexing", "transport", "polling"}

\* uploadFile returning the operation as started, without polling it.
uploadFile_noPoll(filePath, disk, attempt) ==
    IF filePath \notin disk
    THEN Thrown("File not found", filePath, Operation(FALSE, NoError), 0)
    ELSE IF attempt.startThrows
    THEN Thrown("Upload rejected", NoVal, Operation(FALSE, NoError), 0)
    ELSE Returned(attempt.operation, 0)

uploadFile(filePath, disk, attempt) ==
    IF filePath \notin disk
    THEN Thrown("File not found", filePath, Operation(FALSE, NoError), 0)
    ELSE IF attempt.startThrows
    THEN Thrown("Upload rejected", NoVal, Operation(FALSE, NoError), 0)
    ELSE pollOperation(attempt.operation, attempt.responses, attempt.latency, 0, 0)

\* uploadFiles: one uploadFile call per file, a throw counted and collected.
RECURSIVE uploadFiles(_, _, _, _, _)
uploadFiles(uploadList, disk, attempts, i, results) ==
    IF i > Len(uploadList) THEN results
    ELSE LET file == uploadList[i]
             r == uploadFile(file.filePath, disk, attempts[i])
         IN IF r.kind = "return"
            THEN uploadFiles(uploadList, disk, attempts, i + 1,
                    [results EXCEPT !.successful = @ + 1,
                                    !.uploaded = Append(@, file)])
            ELSE uploadFiles(uploadList, disk, attempts, i + 1,
                    [results EXCEPT !.failed = @ + 1,
                        !.errors = Append(@,
                            ErrorEntry("upload", NoVal, NoVal, file.displayName, 0))])

\* How many uploadFile calls for a file throw before the first that returns,
\* when its first nfail attempts meet the given cause and the later ones an
\* upload that completes (at most maxRetries calls are made).
LeadingFailures(filePath, disk, cause, nfail, maxRetries) ==
    IF uploadFile(filePath, disk, UploadAttempts.ok).kind = "throw"
    THEN maxRetries
    ELSE IF uploadFile(filePath, disk, UploadAttempts[cause]).kind = "throw"
    THEN nfail
    ELSE 0

UploadResultsInit(uploadList) ==
    [total |-> Len(uploadList), successful |-> 0, failed |-> 0,
     errors |-> <<>>, uploaded |-> <<>>, calls |-> 0]

(***************************************************************************)
(* SyncService.sync, stage by stage.  Each loop of sync() is a recursive   *)
(* operator; the items that fail in it are an argument.                    *)
(***************************************************************************)
SyncMaxRetries == 3

StatsInit ==
    [pagesProcessed |-> 0, pagesAdded |-> 0, pagesUpdated |-> 0, pagesDeleted |-> 0,
     pagesSkipped |-> 0, pagesErrored |-> 0, errors |-> <<>>]

EffectsInit ==
    [writes |-> 0, uploads |-> 0, upserts |-> 0, deletes |-> 0, failedAttempts |-> {}]

NotFetched == [status |-> "none", pages |-> <<>>]

\* confluenceClient.getPages(spaceKey)
getPages(spaceKey) == ConfluenceGetAllPages(spaceKey, DefaultLimit)

\* Step 3: the fetch loop over the requested space keys.
RECURSIVE fetchLoop(_, _, _)
fetchLoop(keys, failing, acc) ==
    IF keys = <<>> THEN acc
    ELSE LET spaceKey == Head(keys) IN
         IF spaceKey \in failing
         THEN fetchLoop(Tail(keys), failing,
                [acc EXCEPT
                    !.errors = Append(@, ErrorEntry("fetch", NoVal, spaceKey, NoVal, 0)),
                    !.fetched[spaceKey] = [status |-> "error", pages |-> <<>>]])
         ELSE LET pages == getPages(spaceKey) IN
              fetchLoop(Tail(keys), failing,
                [acc EXCEPT
                    !.allPages = @ \o pages,
                    !.fetched[spaceKey] = [status |-> "ok", pages |-> pages]])

\* The entry Step 5 queues for upload.
UploadEntry(page, filePath) ==
    [filePath |-> filePath, displayName |-> <<page.space, page.title>>,
     pageId |-> page.id, title |-> page.title, spaceKey |-> page.space,
     version |-> page.version]

\* Step 5 with the loop left at the first failing page.
RECURSIVE processLoop_abort(_, _, _, _)
processLoop_abort(pages, outcome, i, acc) ==
    IF i > Len(pages) THEN acc
    ELSE LET page == pages[i]
             logged == [acc EXCEPT !.log = Append(@, page.id)]
         IN IF outcome[i] = "ok"
            THEN LET filePath == getPageFilePath(page) IN
                 processLoop_abort(pages, outcome, i + 1,
                    [logged EXCEPT
                        !.disk = @ \cup {filePath},
                        !.writes = @ + 1,
                        !.filesToUpload = Append(@, UploadEntry(page, filePath)),
                        !.stats.pagesProcessed = @ + 1])
            ELSE [logged EXCEPT
                    !.stats.pagesErrored = @ + 1,
                    !.stats.errors = Append(@,
                        ErrorEntry("process", page.id, NoVal, NoVal, 0))]

\* Step 5 queueing a page for upload before converting and saving it.
RECURSIVE processLoop_queueFirst(_, _, _, _)
processLoop_queueFirst(pages, outcome, i, acc) ==
    IF i > Len(pages) THEN acc
    ELSE LET page == pages[i]
             filePath == getPageFilePath(page)
             logged == [acc EXCEPT !.log = Append(@, page.id),
                            !.filesToUpload = Append(@, UploadEntry(page, filePath))]
         IN IF outcome[i] = "ok"
            THEN processLoop_queueFirst(pages, outcome, i + 1,
                    [logged EXCEPT
                        !.disk = @ \cup {filePath},
                        !.writes = @ + 1,
                        !.stats.pagesProcessed = @ + 1])
            ELSE processLoop_queueFirst(pages, outcome, i + 1,
                    [logged EXCEPT
                        !.stats.pagesErrored = @ + 1,
                        !.stats.errors = Append(@,
                            ErrorEntry("process", page.id, NoVal, NoVal, 0))])

\* Step 5: convert, save and queue each page; a failure is caught per page.
RECURSIVE processLoop(_, _, _, _)
processLoop(pages, outcome, i, acc) ==
    IF i > Len(pages) THEN acc
    ELSE LET page == pages[i]
             logged == [acc EXCEPT !.log = Append(@, page.id)]
         IN IF outcome[i] = "ok"
            THEN LET filePath == getPageFilePath(page) IN
                 processLoop(pages, outcome, i + 1,
                    [logged EXCEPT
                        !.disk = @ \cup {filePath},
                        !.writes = @ + 1,
                        !.filesToUpload = Append(@, UploadEntry(page, filePath)),
                        !.stats.pagesProcessed = @ + 1])
            ELSE processLoop(pages, outcome, i + 1,
                    [logged EXCEPT
                        !.stats.pagesErrored = @ + 1,
                        !.stats.errors = Append(@,
                            ErrorEntry("process", page.id, NoVal, NoVal, 0))])

\* SyncService.updateDatabase: one upsert per queued page; a failure is
\* caught per page and only logged to the console.
RECURSIVE updateDatabase(_, _, _, _)
updateDatabase(pages, failing, i, acc) ==
    IF i > Len(pages) THEN acc
    ELSE LET page == pages[i]
             existing == TableGet(acc.table, page.pageId)
             row == [page_id |-> page.pageId, space_key |-> page.spaceKey,
                     title |-> page.title, version |-> page.version,
                     file_path |-> page.filePath]
         IN IF i \in failing
            THEN updateDatabase(pages, failing, i + 1, acc)
            ELSE updateDatabase(pages, failing, i + 1,
                    [acc EXCEPT
                        !.table = upsertPage(@, row),
                        !.upserts = @ + 1,
                        !.stats.pagesUpdated = IF existing # NoRow THEN @ + 1 ELSE @,
                        !.stats.pagesAdded = IF existing = NoRow THEN @ + 1 ELSE @])

\* handleDeletedPages with its try/catch around the loop: the first failure
\* ends the loop.
RECURSIVE handleDeletedPages_abort(_, _, _, _)
handleDeletedPages_abort(deletedPages, outcome, i, acc) ==
    IF i > Len(deletedPages) THEN acc
    ELSE LET page == deletedPages[i] IN
         IF outcome[i] = "deleteRecord"
         THEN acc
         ELSE handleDeletedPages_abort(deletedPages, outcome, i + 1,
                [acc EXCEPT
                    !.table = deletePage(@, page.page_id),
                    !.deletes = @ + 1,
                    !.disk = IF outcome[i] = "ok" /\ page.file_path # NoPath
                             THEN @ \ {page.file_path} ELSE @])

\* SyncService.handleDeletedPages: remove the row, then the file; a failure
\* is caught per page and only logged to the console.
RECURSIVE handleDeletedPages(_, _, _, _)
handleDeletedPages(deletedPages, outcome, i, acc) ==
    IF i > Len(deletedPages) THEN acc
    ELSE LET page == deletedPages[i] IN
         IF outcome[i] = "deleteRecord"
         THEN handleDeletedPages(deletedPages, outcome, i + 1, acc)
         ELSE handleDeletedPages(deletedPages, outcome, i + 1,
                [acc EXCEPT
                    !.table = deletePage(@, page.page_id),
                    !.deletes = @ + 1,
                    !.disk = IF outcome[i] = "ok" /\ page.file_path # NoPath
                             THEN @ \ {page.file_path} ELSE @])

NumFailing(outcome, okValue) ==
    Cardinality({i \in DOMAIN outcome : outcome[i] # okValue})

Fault(kind, ref) == [kind |-> kind, ref |-> ref]

(***************************************************************************)
(* ChangeDetector.cleanup: remove the given rows and their files, then the *)
(* orphaned files.  outcome[i] tells what fails for page i; orphanFailing  *)
(* is the set of orphaned files whose unlink fails.                        *)
(***************************************************************************)
CleanupResultsInit ==
    [deletedPages |-> 0, deletedFiles |-> 0, orphanedFiles |-> 0, errors |-> <<>>]

\* A path is the tuple of its components, the last one the extension.
IsUnder(dir, filePath) == Len(filePath) > 1 /\ filePath[1] = dir

EndsWithMd(filePath) == filePath[Len(filePath)] = "md"

\* fs.existsSync of a directory: it holds a file, at any depth.
DirExists(dir, disk) == \E f \in disk : IsUnder(dir, f)

\* findOrphanedFiles without the check against the rows of synced_pages.
findOrphanedFiles_untracked(contentDir, table, disk) ==
    IF ~DirExists(contentDir, disk) THEN {}
    ELSE {f \in disk : IsUnder(contentDir, f) /\ EndsWithMd(f)}

\* findOrphanedFiles: the markdown files under contentDir, at any depth, that
\* no row of synced_pages points at; nothing when contentDir does not exist.
findOrphanedFiles(contentDir, table, disk) ==
    IF ~DirExists(contentDir, disk) THEN {}
    ELSE LET syncedFilePaths == {r.file_path : r \in table}
         IN {f \in disk : /\ IsUnder(contentDir, f)
                          /\ EndsWithMd(f)
                          /\ f \notin syncedFilePaths}

\* fileExists: false without a file_path, else fs.existsSync(file_path).
fileExists(syncedPage) ==
    IF syncedPage.file_path = NoPath THEN FALSE
    ELSE syncedPage.file_path \in files

\* findMissingFiles looking only at the rows that have a file_path.
findMissingFiles_pathOnly ==
    SelectSeq(getAllPages,
              LAMBDA page : page.file_path # NoPath /\ page.file_path \notin files)

findMissingFiles == SelectSeq(getAllPages, LAMBDA page : ~fileExists(page))

\* generateChangeSummary: the counts of the three detections.
generateChangeSummary(confluencePages) ==
    LET changedPages == detectChanges(confluencePages)
        deletedPages == detectDeletedPages(confluencePages)
        missingFiles == findMissingFiles
    IN [total |-> Len(confluencePages),
        synced |-> Len(getAllPages),
        changes |-> [new |-> Len(SelectSeq(changedPages,
                                    LAMBDA p : getPage(p.id) = NoRow)),
                     updated |-> Len(SelectSeq(changedPages,
                                    LAMBDA p : getPage(p.id) # NoRow)),
                     deleted |-> Len(deletedPages)],
        issues |-> [missingFiles |-> Len(missingFiles)],
        needsSync |-> \/ Len(changedPages) > 0
                      \/ Len(deletedPages) > 0
                      \/ Len(missingFiles) > 0]

RECURSIVE cleanupLoop(_, _, _, _)
cleanupLoop(deletedPages, outcome, i, acc) ==
    IF i > Len(deletedPages) THEN acc
    ELSE LET page == deletedPages[i]
             failed == [acc EXCEPT !.results.errors =
                            Append(@, [pageId |-> page.page_id, file |-> NoVal])]
             removed == [acc EXCEPT !.table = deletePage(@, page.page_id),
                                    !.results.deletedPages = @ + 1]
         IN IF outcome[i] = "deleteRecord"
            THEN cleanupLoop(deletedPages, outcome, i + 1, failed)
            ELSE IF page.file_path # NoPath /\ page.file_path \in acc.disk
            THEN IF outcome[i] = "deleteFile"
                 THEN cleanupLoop(deletedPages, outcome, i + 1,
                        [removed EXCEPT !.results.errors =
                            Append(@, [pageId |-> page.page_id, file |-> NoVal])])
                 ELSE cleanupLoop(deletedPages, outcome, i + 1,
                        [removed EXCEPT !.disk = @ \ {page.file_path},
                                        !.results.deletedFiles = @ + 1])
            ELSE cleanupLoop(deletedPages, outcome, i + 1, removed)

RECURSIVE orphanLoop(_, _, _)
orphanLoop(orphanedFiles, orphanFailing, acc) ==
    IF orphanedFiles = <<>> THEN acc
    ELSE LET filePath == Head(orphanedFiles) IN
         IF filePath \in orphanFailing
         THEN orphanLoop(Tail(orphanedFiles), orphanFailing,
                [acc EXCEPT !.results.errors =
                    Append(@, [pageId |-> NoVal, file |-> filePath])])
         ELSE orphanLoop(Tail(orphanedFiles), orphanFailing,
                [acc EXCEPT !.disk = @ \ {filePath},
                            !.results.orphanedFiles = @ + 1])

cleanup(deletedPages, contentDir, outcome, orphanFailing, table, disk) ==
    LET afterPages == cleanupLoop(deletedPages, outcome, 1,
                        [table |-> table, disk |-> disk, results |-> CleanupResultsInit])
    IN orphanLoop(SetToSeq(findOrphanedFiles(contentDir, afterPages.table,
                                             afterPages.disk)),
                  orphanFailing, afterPages)

(***************************************************************************)
(* Initial states.  The record store holds what earlier runs left: at most *)
(* one row per page id, each with its file on disk.                        *)
(***************************************************************************)
\* The store the API creates when it holds the given ones: a fresh name.
NewStore(existing) == [name |-> <<"fileSearchStores", Cardinality(existing) + 1>>]

StoreRow == NewStore({})

\* Page "1" in every state the detector tells apart; page "2" beside it, at
\* version 1, in either space.
RemotePages(id) ==
    IF id = "1" THEN {p \in Page : p.id = "1" /\ p.title = "New Title"}
    ELSE {p \in Page : p.id = id /\ p.title = "New Title" /\ p.version = 1}

StoredPages(id) ==
    IF id = "1" THEN {p \in Page : p.id = "1"}
    ELSE RemotePages(id)

SyncIds == {"1", "2"}

Remotes ==
    {a \cup b : a \in {{}} \cup {{p} : p \in RemotePages("1")},
                b \in {{}} \cup {{p} : p \in RemotePages("2")}}

SyncedStores ==
    {a \cup b :
        a \in {{}} \cup {{RowOf(p, getPageFilePath(p))} : p \in StoredPages("1")},
        b \in {{}} \cup {{RowOf(p, getPageFilePath(p))} : p \in StoredPages("2")}}

RunIdle ==
    /\ pc = "idle"
    /\ force = FALSE
    /\ syncId = 0
    /\ allPages = <<>>
    /\ pagesToProcess = <<>>
    /\ filesToUpload = <<>>
    /\ stats = StatsInit
    /\ fetched = [k \in SpaceKeys |-> NotFetched]
    /\ processLog = <<>>
    /\ effects = EffectsInit
    /\ rowsAtStart = {}
    /\ runFaults = {}

DetectorIdle ==
    /\ detOp = "none"
    /\ detIn = <<>>
    /\ detOut = <<>>

Init ==
    /\ remote \in Remotes
    /\ syncSpaceKeys \in {<<"DEV">>, <<"DEV", "PROD">>}
    /\ synced_pages \in SyncedStores
    /\ sync_history = <<>>
    /\ file_search_stores = IF synced_pages = {} THEN {} ELSE {StoreRow}
    /\ externalStores = {r.name : r \in file_search_stores}
    /\ files = {r.file_path : r \in synced_pages}
    /\ RunIdle
    /\ faults = 0
    /\ pendingUpload = {}
    /\ runs = <<>>
    /\ DetectorIdle

(***************************************************************************)
(* sync(): one action per stage.                                           *)
(***************************************************************************)
RunningRow ==
    [status |-> "running", completed |-> FALSE, pages_added |-> 0,
     pages_updated |-> 0, pages_deleted |-> 0, pages_skipped |-> 0, error |-> NoVal]

\* DatabaseManager.getLastSync with the order reversed (ORDER BY id ASC).
getLastSync_oldest ==
    IF sync_history = <<>> THEN [id |-> 0]
    ELSE LET id == CHOOSE i \in DOMAIN sync_history :
                        \A j \in DOMAIN sync_history : j >= i
         IN [id |-> id, row |-> sync_history[id]]

\* DatabaseManager.getLastSync: SELECT * FROM sync_history ORDER BY id DESC
\* LIMIT 1; undefined (id 0 here) on an empty ledger.
getLastSync ==
    IF sync_history = <<>> THEN [id |-> 0]
    ELSE LET id == CHOOSE i \in DOMAIN sync_history :
                        \A j \in DOMAIN sync_history : j <= i
         IN [id |-> id, row |-> sync_history[id]]

\* sync() starting its stages without inserting the ledger row first.
StartSync_noRow ==
    /\ pc = "idle"
    /\ Len(runs) < MaxRuns
    /\ \E f \in BOOLEAN : force' = f
    /\ syncId' = Len(sync_history) + 1
    /\ allPages' = <<>>
    /\ pagesToProcess' = <<>>
    /\ filesToUpload' = <<>>
    /\ stats' = StatsInit
    /\ fetched' = [k \in SpaceKeys |-> NotFetched]
    /\ processLog' = <<>>
    /\ effects' = EffectsInit
    /\ rowsAtStart' = synced_pages
    /\ runFaults' = {}
    /\ pc' = "store"
    /\ UNCHANGED <<envVars, storeVars, histVars, detVars>>

\* db.startSync(), first statement of the run
StartSync ==
    /\ pc = "idle"
    /\ Len(runs) < MaxRuns
    /\ \E f \in BOOLEAN : force' = f
    /\ sync_history' = Append(sync_history, RunningRow)
    /\ syncId' = Len(sync_history) + 1
    /\ allPages' = <<>>
    /\ pagesToProcess' = <<>>
    /\ filesToUpload' = <<>>
    /\ stats' = StatsInit
    /\ fetched' = [k \in SpaceKeys |-> NotFetched]
    /\ processLog' = <<>>
    /\ effects' = EffectsInit
    /\ rowsAtStart' = synced_pages
    /\ runFaults' = {}
    /\ pc' = "store"
    /\ UNCHANGED <<envVars, synced_pages, file_search_stores, files, histVars, detVars>>

\* db.startSync() throws: it is called outside the try block, so sync()
\* throws to its caller with no ledger row and nothing else done
StartSyncFails ==
    /\ pc = "idle"
    /\ Len(runs) < MaxRuns
    /\ faults < MaxFaults
    /\ \E f \in BOOLEAN : force' = f
    /\ syncId' = 0
    /\ allPages' = <<>>
    /\ pagesToProcess' = <<>>
    /\ filesToUpload' = <<>>
    /\ stats' = StatsInit
    /\ fetched' = [k \in SpaceKeys |-> NotFetched]
    /\ processLog' = <<>>
    /\ effects' = EffectsInit
    /\ rowsAtStart' = synced_pages
    /\ runFaults' = {Fault("startSync", NoVal)}
    /\ faults' = faults + 1
    /\ runs' = Append(runs,
            [syncId |-> 0, force |-> force', success |-> FALSE, thrown |-> TRUE,
             stats |-> StatsInit, faults |-> {Fault("startSync", NoVal)},
             effects |-> EffectsInit, fetchedCount |-> 0])
    /\ pc' = "idle"
    /\ UNCHANGED <<envVars, storeVars, pendingUpload, detVars>>

\* Step 1, StoreManager.getOrCreateStore: the cached reference
UseCachedStore ==
    /\ pc = "store"
    /\ getFileSearchStore(file_search_stores) # NoStore
    /\ pc' = "fetch"
    /\ UNCHANGED <<envVars, storeVars, force, syncId, allPages, pagesToProcess,
                   filesToUpload, stats, fetched, processLog, effects, rowsAtStart,
                   runFaults, histVars, detVars>>

\* Step 1, StoreManager.getOrCreateStore: create and save the reference
CreateStore ==
    /\ pc = "store"
    /\ getFileSearchStore(file_search_stores) = NoStore
    /\ LET store == NewStore(externalStores)
       IN /\ externalStores' = externalStores \cup {store.name}
          /\ file_search_stores' = upsertFileSearchStore(file_search_stores, store)
    /\ pc' = "fetch"
    /\ UNCHANGED <<remote, syncSpaceKeys, synced_pages, sync_history, files, force, syncId, allPages,
                   pagesToProcess, filesToUpload, stats, fetched, processLog, effects,
                   rowsAtStart, runFaults, histVars, detVars>>

\* Step 1, StoreManager.getOrCreateStore: the store is created, saving its
\* reference throws and the error is rethrown: sync() lands in its catch
SaveStoreFails ==
    /\ pc = "store"
    /\ getFileSearchStore(file_search_stores) = NoStore
    /\ faults < MaxFaults
    /\ externalStores' = externalStores \cup {NewStore(externalStores).name}
    /\ faults' = faults + 1
    /\ runFaults' = runFaults \cup {Fault("store", NoVal)}
    /\ pc' = "catch"
    /\ UNCHANGED <<remote, syncSpaceKeys, storeVars, force, syncId, allPages,
                   pagesToProcess, filesToUpload, stats, fetched, processLog, effects,
                   rowsAtStart, pendingUpload, runs, detVars>>

\* Step 1, StoreManager.getOrCreateStore: fileSearchStores.create throws and
\* the error is rethrown: sync() lands in its catch
CreateStoreFails ==
    /\ pc = "store"
    /\ getFileSearchStore(file_search_stores) = NoStore
    /\ faults < MaxFaults
    /\ faults' = faults + 1
    /\ runFaults' = runFaults \cup {Fault("store", NoVal)}
    /\ pc' = "catch"
    /\ UNCHANGED <<envVars, storeVars, force, syncId, allPages, pagesToProcess,
                   filesToUpload, stats, fetched, processLog, effects, rowsAtStart,
                   pendingUpload, runs, detVars>>

\* Step 3: fetch every requested space; a failing fetch is caught per space
FetchPages ==
    /\ pc = "fetch"
    /\ \E failing \in SUBSET Range(syncSpaceKeys) :
        /\ faults + Cardinality(failing) <= MaxFaults
        /\ LET acc == fetchLoop(syncSpaceKeys, failing,
                        [allPages |-> <<>>, errors |-> stats.errors, fetched |-> fetched])
           IN /\ allPages' = acc.allPages
              /\ stats' = [stats EXCEPT !.errors = acc.errors]
              /\ fetched' = acc.fetched
        /\ faults' = faults + Cardinality(failing)
        /\ runFaults' = runFaults \cup {Fault("fetch", k) : k \in failing}
    /\ pc' = "classify"
    /\ UNCHANGED <<envVars, storeVars, force, syncId, pagesToProcess, filesToUpload,
                   processLog, effects, rowsAtStart, pendingUpload, runs, detVars>>

\* Step 4 running the change detection whatever forceFullSync says.
DetectChangesStep_ignoreForce ==
    /\ pc = "classify"
    /\ LET toProcess == detectChanges(allPages)
           skippedCount == Len(allPages) - Len(toProcess)
       IN /\ pagesToProcess' = toProcess
          /\ stats' = IF skippedCount > 0
                      THEN [stats EXCEPT !.pagesSkipped = skippedCount]
                      ELSE stats
    /\ pc' = "process"
    /\ UNCHANGED <<envVars, storeVars, force, syncId, allPages, filesToUpload, fetched,
                   processLog, effects, rowsAtStart, runFaults, histVars, detVars>>

\* Step 4: change detection, unless forceFullSync
DetectChangesStep ==
    /\ pc = "classify"
    /\ LET toProcess == IF force THEN allPages ELSE detectChanges(allPages)
           skippedCount == Len(allPages) - Len(toProcess)
       IN /\ pagesToProcess' = toProcess
          /\ stats' = IF skippedCount > 0
                      THEN [stats EXCEPT !.pagesSkipped = skippedCount]
                      ELSE stats
    /\ pc' = "process"
    /\ UNCHANGED <<envVars, storeVars, force, syncId, allPages, filesToUpload, fetched,
                   processLog, effects, rowsAtStart, runFaults, histVars, detVars>>

\* Step 4 with the error of the read swallowed: the run goes on with no page
\* to process.
DetectChangesFails_swallowed ==
    /\ pc = "classify"
    /\ ~force
    /\ allPages # <<>>
    /\ faults < MaxFaults
    /\ faults' = faults + 1
    /\ runFaults' = runFaults \cup {Fault("readPage", NoVal)}
    /\ pc' = "process"
    /\ UNCHANGED <<envVars, storeVars, force, syncId, allPages, pagesToProcess,
                   filesToUpload, stats, fetched, processLog, effects, rowsAtStart,
                   pendingUpload, runs, detVars>>

\* Step 4: a db.getPage of detectChanges throws: sync() lands in its catch.
\* No read is made under forceFullSync or when nothing was fetched.
DetectChangesFails ==
    /\ pc = "classify"
    /\ ~force
    /\ allPages # <<>>
    /\ faults < MaxFaults
    /\ faults' = faults + 1
    /\ runFaults' = runFaults \cup {Fault("readPage", NoVal)}
    /\ pc' = "catch"
    /\ UNCHANGED <<envVars, storeVars, force, syncId, allPages, pagesToProcess,
                   filesToUpload, stats, fetched, processLog, effects, rowsAtStart,
                   pendingUpload, runs, detVars>>

\* Step 5: convert and save each page to process
ProcessPages ==
    /\ pc = "process"
    /\ \E outcome \in [1..Len(pagesToProcess) -> {"ok", "convert", "save"}] :
        /\ faults + NumFailing(outcome, "ok") <= MaxFaults
        /\ LET acc == processLoop(pagesToProcess, outcome, 1,
                        [filesToUpload |-> <<>>, stats |-> stats, disk |-> files,
                         log |-> <<>>, writes |-> 0])
           IN /\ filesToUpload' = acc.filesToUpload
              /\ stats' = acc.stats
              /\ files' = acc.disk
              /\ processLog' = acc.log
              /\ effects' = [effects EXCEPT !.writes = acc.writes]
        /\ faults' = faults + NumFailing(outcome, "ok")
        /\ runFaults' = runFaults \cup
                {Fault(outcome[i], pagesToProcess[i].id) :
                    i \in {j \in DOMAIN outcome : outcome[j] # "ok"}}
    /\ pc' = "upload"
    /\ UNCHANGED <<envVars, synced_pages, sync_history, file_search_stores, force,
                   syncId, allPages, pagesToProcess, fetched, rowsAtStart,
                   pendingUpload, runs, detVars>>

\* Step 6 is skipped when nothing was queued
SkipUpload ==
    /\ pc = "upload"
    /\ filesToUpload = <<>>
    /\ pc' = "persist"
    /\ UNCHANGED <<envVars, storeVars, force, syncId, allPages, pagesToProcess,
                   filesToUpload, stats, fetched, processLog, effects, rowsAtStart,
                   runFaults, histVars, detVars>>

\* Step 6: uploadFilesWithRetry(filesToUpload, store.name, 3)
UploadFiles ==
    /\ pc = "upload"
    /\ filesToUpload # <<>>
    /\ \E nfail \in [1..Len(filesToUpload) -> 0..SyncMaxRetries] :
       \E cause \in [1..Len(filesToUpload) -> FailureCauses \cup {"ok"}] :
        /\ \A i \in DOMAIN nfail : nfail[i] = 0 <=> cause[i] = "ok"
        /\ faults + NumFailing(nfail, 0) <= MaxFaults
        /\ LET failsBefore == [i \in DOMAIN nfail |->
                    LeadingFailures(filesToUpload[i].filePath, files,
                                    cause[i], nfail[i], SyncMaxRetries)]
               uploadResults ==
                    uploadFilesWithRetry(filesToUpload, failsBefore, SyncMaxRetries)
               okIds == {uploadResults.uploaded[i].pageId :
                            i \in 1..Len(uploadResults.uploaded)}
               allIds == {filesToUpload[i].pageId : i \in 1..Len(filesToUpload)}
           IN /\ stats' = [stats EXCEPT
                            !.pagesErrored = @ + uploadResults.failed,
                            !.errors = @ \o uploadResults.errors]
              /\ effects' = [effects EXCEPT
                    !.uploads = uploadResults.successful,
                    !.failedAttempts =
                        {[pageId |-> filesToUpload[i].pageId, cause |-> cause[i],
                          exhausted |-> failsBefore[i] >= SyncMaxRetries] :
                            i \in {j \in DOMAIN nfail : nfail[j] > 0}}]
              /\ pendingUpload' = (pendingUpload \cup (allIds \ okIds)) \ okIds
              /\ runFaults' = runFaults \cup
                    {Fault("upload", filesToUpload[i].pageId) :
                        i \in {j \in DOMAIN failsBefore : failsBefore[j] > 0}}
        /\ faults' = faults + NumFailing(nfail, 0)
    /\ pc' = "persist"
    /\ UNCHANGED <<envVars, storeVars, force, syncId, allPages, pagesToProcess,
                   filesToUpload, fetched, processLog, rowsAtStart, runs, detVars>>

\* Step 7 handing updateDatabase only the files whose upload succeeded.
UpdateDatabaseStep_uploadedOnly ==
    /\ pc = "persist"
    /\ LET uploadedFiles == SelectSeq(filesToUpload,
                                LAMBDA file : file.pageId \notin pendingUpload)
       IN \E failing \in SUBSET (1..Len(uploadedFiles)) :
            /\ faults + Cardinality(failing) <= MaxFaults
            /\ LET acc == updateDatabase(uploadedFiles, failing, 1,
                            [table |-> synced_pages, stats |-> stats, upserts |-> 0])
               IN /\ synced_pages' = acc.table
                  /\ stats' = acc.stats
                  /\ effects' = [effects EXCEPT !.upserts = acc.upserts]
            /\ faults' = faults + Cardinality(failing)
            /\ runFaults' = runFaults \cup
                    {Fault("upsert", uploadedFiles[i].pageId) : i \in failing}
    /\ pc' = "delete"
    /\ UNCHANGED <<envVars, sync_history, file_search_stores, files, force, syncId,
                   allPages, pagesToProcess, filesToUpload, fetched, processLog,
                   rowsAtStart, pendingUpload, runs, detVars>>

\* Step 7: updateDatabase(filesToUpload, stats)
UpdateDatabaseStep ==
    /\ pc = "persist"
    /\ \E failing \in SUBSET (1..Len(filesToUpload)) :
        /\ faults + Cardinality(failing) <= MaxFaults
        /\ LET acc == updateDatabase(filesToUpload, failing, 1,
                        [table |-> synced_pages, stats |-> stats, upserts |-> 0])
           IN /\ synced_pages' = acc.table
              /\ stats' = acc.stats
              /\ effects' = [effects EXCEPT !.upserts = acc.upserts]
        /\ faults' = faults + Cardinality(failing)
        /\ runFaults' = runFaults \cup
                {Fault("upsert", filesToUpload[i].pageId) : i \in failing}
    /\ pc' = "delete"
    /\ UNCHANGED <<envVars, sync_history, file_search_stores, files, force, syncId,
                   allPages, pagesToProcess, filesToUpload, fetched, processLog,
                   rowsAtStart, pendingUpload, runs, detVars>>

\* Step 8 also taken in place of Step 7, before the upserts of the run.
DeleteStep_early ==
    /\ pc \in {"persist", "delete"}
    /\ LET deletedPages == detectDeletedPages(allPages) IN
       \E outcome \in [1..Len(deletedPages) -> {"ok", "deleteRecord", "deleteFile"}] :
        /\ faults + NumFailing(outcome, "ok") <= MaxFaults
        /\ LET acc == handleDeletedPages(deletedPages, outcome, 1,
                        [table |-> synced_pages, disk |-> files, deletes |-> 0])
           IN /\ synced_pages' = acc.table
              /\ files' = acc.disk
              /\ effects' = [effects EXCEPT !.deletes = acc.deletes]
        /\ stats' = IF Len(deletedPages) > 0
                    THEN [stats EXCEPT !.pagesDeleted = Len(deletedPages)]
                    ELSE stats
        /\ faults' = faults + NumFailing(outcome, "ok")
        /\ runFaults' = runFaults \cup
                {Fault(outcome[i], deletedPages[i].page_id) :
                    i \in {j \in DOMAIN outcome : outcome[j] # "ok"}}
    /\ pc' = "finalize"
    /\ UNCHANGED <<envVars, sync_history, file_search_stores, force, syncId, allPages,
                   pagesToProcess, filesToUpload, fetched, processLog, rowsAtStart,
                   pendingUpload, runs, detVars>>

\* Step 8: detectDeletedPages(allPages), then handleDeletedPages
DeleteStep ==
    /\ pc = "delete"
    /\ LET deletedPages == detectDeletedPages(allPages) IN
       \E outcome \in [1..Len(deletedPages) -> {"ok", "deleteRecord", "deleteFile"}] :
        /\ faults + NumFailing(outcome, "ok") <= MaxFaults
        /\ LET acc == handleDeletedPages(deletedPages, outcome, 1,
                        [table |-> synced_pages, disk |-> files, deletes |-> 0])
           IN /\ synced_pages' = acc.table
              /\ files' = acc.disk
              /\ effects' = [effects EXCEPT !.deletes = acc.deletes]
        /\ stats' = IF Len(deletedPages) > 0
                    THEN [stats EXCEPT !.pagesDeleted = Len(deletedPages)]
                    ELSE stats
        /\ faults' = faults + NumFailing(outcome, "ok")
        /\ runFaults' = runFaults \cup
                {Fault(outcome[i], deletedPages[i].page_id) :
                    i \in {j \in DOMAIN outcome : outcome[j] # "ok"}}
    /\ pc' = "finalize"
    /\ UNCHANGED <<envVars, sync_history, file_search_stores, force, syncId, allPages,
                   pagesToProcess, filesToUpload, fetched, processLog, rowsAtStart,
                   pendingUpload, runs, detVars>>

\* Step 8: a db.getPagesBySpace of detectDeletedPages throws: sync() lands in
\* its catch.  No read is made when nothing was fetched.
DetectDeletedFails ==
    /\ pc = "delete"
    /\ allPages # <<>>
    /\ faults < MaxFaults
    /\ faults' = faults + 1
    /\ runFaults' = runFaults \cup {Fault("readSpace", NoVal)}
    /\ pc' = "catch"
    /\ UNCHANGED <<envVars, storeVars, force, syncId, allPages, pagesToProcess,
                   filesToUpload, stats, fetched, processLog, effects, rowsAtStart,
                   pendingUpload, runs, detVars>>

\* What a finished call of sync() left: the returned object (success, stats)
\* or, with thrown, the fact that it threw instead of returning.
RunSummary(success) ==
    [syncId |-> syncId, force |-> force, success |-> success, thrown |-> FALSE,
     stats |-> stats, faults |-> runFaults, effects |-> effects,
     fetchedCount |-> Len(allPages)]

\* completeSync as an UPDATE without its WHERE id = ? clause.
CompleteSync_allRows ==
    /\ pc = "finalize"
    /\ sync_history' = [i \in DOMAIN sync_history |->
            [status |-> "completed", completed |-> TRUE,
             pages_added |-> stats.pagesAdded, pages_updated |-> stats.pagesUpdated,
             pages_deleted |-> stats.pagesDeleted, pages_skipped |-> stats.pagesSkipped,
             error |-> NoVal]]
    /\ runs' = Append(runs, RunSummary(TRUE))
    /\ pc' = "idle"
    /\ UNCHANGED <<envVars, synced_pages, file_search_stores, files, force, syncId,
                   allPages, pagesToProcess, filesToUpload, stats, fetched, processLog,
                   effects, rowsAtStart, runFaults, faults, pendingUpload, detVars>>

\* db.completeSync(syncId, counts); sync() returns success: true
CompleteSync ==
    /\ pc = "finalize"
    /\ sync_history' = [sync_history EXCEPT ![syncId] =
            [status |-> "completed", completed |-> TRUE,
             pages_added |-> stats.pagesAdded, pages_updated |-> stats.pagesUpdated,
             pages_deleted |-> stats.pagesDeleted, pages_skipped |-> stats.pagesSkipped,
             error |-> NoVal]]
    /\ runs' = Append(runs, RunSummary(TRUE))
    /\ pc' = "idle"
    /\ UNCHANGED <<envVars, synced_pages, file_search_stores, files, force, syncId,
                   allPages, pagesToProcess, filesToUpload, stats, fetched, processLog,
                   effects, rowsAtStart, runFaults, faults, pendingUpload, detVars>>

\* db.completeSync throws inside the try block: sync() lands in its catch
CompleteSyncFails ==
    /\ pc = "finalize"
    /\ faults < MaxFaults
    /\ faults' = faults + 1
    /\ runFaults' = runFaults \cup {Fault("completeSync", NoVal)}
    /\ pc' = "catch"
    /\ UNCHANGED <<envVars, storeVars, force, syncId, allPages, pagesToProcess,
                   filesToUpload, stats, fetched, processLog, effects, rowsAtStart,
                   pendingUpload, runs, detVars>>

\* catch: db.failSync(syncId, error.message); sync() returns success: false
FailSync ==
    /\ pc = "catch"
    /\ sync_history' = [sync_history EXCEPT ![syncId] =
            [@ EXCEPT !.status = "failed", !.completed = TRUE, !.error = "error"]]
    /\ runs' = Append(runs, RunSummary(FALSE))
    /\ pc' = "idle"
    /\ UNCHANGED <<envVars, synced_pages, file_search_stores, files, force, syncId,
                   allPages, pagesToProcess, filesToUpload, stats, fetched, processLog,
                   effects, rowsAtStart, runFaults, faults, pendingUpload, detVars>>

\* catch: db.failSync throws; nothing catches it, sync() throws to its caller
\* and the ledger row stays as it was.  This failure comes on top of the one
\* that led to the catch block and happens at most once per call, so it is
\* not counted in faults.
FailSyncFails ==
    /\ pc = "catch"
    /\ faults' = faults
    /\ runFaults' = runFaults \cup {Fault("failSync", NoVal)}
    /\ runs' = Append(runs,
            [RunSummary(FALSE) EXCEPT
                !.thrown = TRUE,
                !.faults = runFaults \cup {Fault("failSync", NoVal)}])
    /\ pc' = "idle"
    /\ UNCHANGED <<envVars, storeVars, force, syncId, allPages, pagesToProcess,
                   filesToUpload, stats, fetched, processLog, effects, rowsAtStart,
                   pendingUpload, detVars>>

Next ==
    \/ StartSync
    \/ StartSyncFails
    \/ UseCachedStore
    \/ CreateStore
    \/ CreateStoreFails
    \/ SaveStoreFails
    \/ FetchPages
    \/ DetectChangesStep
    \/ DetectChangesFails
    \/ ProcessPages
    \/ SkipUpload
    \/ UploadFiles
    \/ UpdateDatabaseStep
    \/ DeleteStep
    \/ DetectDeletedFails
    \/ CompleteSync
    \/ CompleteSyncFails
    \/ FailSync
    \/ FailSyncFails

Spec == Init /\ [][Next]_vars

(***************************************************************************)
(* The change detector called on its own: any record store with one row    *)
(* per page id, any list of remote pages.  The scenarios are of two kinds: *)
(* classification (pages "1" and "2" of one space, every title and         *)
(* version) and deletion (every page id and space, one title and version). *)
(***************************************************************************)
ClassifyPages == {p \in Page : p.space = "DEV" /\ p.id \in {"1", "2"}}

DeletionPages == {p \in Page : p.title = "Old Title" /\ p.version = 1}

StoresOf(pages) ==
    LET perId(id) == {{}} \cup
            {{RowOf(p, getPageFilePath(p))} : p \in {q \in pages : q.id = id}}
    IN {a \cup b \cup c : a \in perId("1"), b \in perId("2"), c \in perId("3")}

DetectorStores == StoresOf(ClassifyPages) \cup StoresOf(DeletionPages)

InputLists ==
    BoundedSeq(ClassifyPages, MaxInputLen) \cup BoundedSeq(DeletionPages, MaxInputLen)

DetectorInit ==
    /\ remote = {}
    /\ syncSpaceKeys = <<>>
    /\ externalStores = {}
    /\ synced_pages \in DetectorStores
    /\ sync_history = <<>>
    /\ file_search_stores = {}
    /\ files = {r.file_path : r \in synced_pages}
    /\ RunIdle
    /\ faults = 0
    /\ pendingUpload = {}
    /\ runs = <<>>
    /\ DetectorIdle

DetectChangesCall ==
    /\ detOp = "none"
    /\ \E pages \in InputLists :
        /\ detIn' = pages
        /\ detOut' = detectChanges(pages)
    /\ detOp' = "detectChanges"
    /\ UNCHANGED <<envVars, storeVars, runVars, histVars>>

DetectDeletedPagesCall ==
    /\ detOp = "none"
    /\ \E pages \in InputLists :
        /\ detIn' = pages
        /\ detOut' = detectDeletedPages(pages)
    /\ detOp' = "detectDeletedPages"
    /\ UNCHANGED <<envVars, storeVars, runVars, histVars>>

\* The lists of rows handed to a deletion: rows of the table, none twice.
DeletedLists ==
    {l \in BoundedSeq(synced_pages, MaxInputLen) :
        \A i, j \in 1..Len(l) : l[i] = l[j] => i = j}

DeleteOutcomes(deletedPages) ==
    [1..Len(deletedPages) -> {"ok", "deleteRecord", "deleteFile"}]

DeleteFaults(deletedPages, outcome) ==
    {Fault(outcome[i], deletedPages[i].page_id) :
        i \in {j \in DOMAIN outcome : outcome[j] # "ok"}}

\* A call of SyncService.handleDeletedPages(deletedPages).
HandleDeletedPagesCall ==
    /\ detOp = "none"
    /\ \E deletedPages \in DeletedLists :
       \E outcome \in DeleteOutcomes(deletedPages) :
        LET acc == handleDeletedPages(deletedPages, outcome, 1,
                        [table |-> synced_pages, disk |-> files, deletes |-> 0])
        IN /\ synced_pages' = acc.table
           /\ files' = acc.disk
           /\ detIn' = deletedPages
           /\ detOut' = acc.deletes
           /\ runFaults' = DeleteFaults(deletedPages, outcome)
    /\ detOp' = "handleDeletedPages"
    /\ UNCHANGED <<envVars, sync_history, file_search_stores, pc, force, syncId,
                   allPages, pagesToProcess, filesToUpload, stats, fetched, processLog,
                   effects, rowsAtStart, histVars>>

\* A call of ChangeDetector.cleanup(deletedPages, contentDir).
CleanupCall ==
    /\ detOp = "none"
    /\ \E deletedPages \in DeletedLists :
       \E outcome \in DeleteOutcomes(deletedPages) :
       \E orphanFailing \in SUBSET {deletedPages[i].file_path : i \in 1..Len(deletedPages)} :
        LET acc == cleanup(deletedPages, "content", outcome, orphanFailing,
                            synced_pages, files)
        IN /\ synced_pages' = acc.table
           /\ files' = acc.disk
           /\ detIn' = deletedPages
           /\ detOut' = acc.results
           /\ runFaults' = DeleteFaults(deletedPages, outcome)
    /\ detOp' = "cleanup"
    /\ UNCHANGED <<envVars, sync_history, file_search_stores, pc, force, syncId,
                   allPages, pagesToProcess, filesToUpload, stats, fetched, processLog,
                   effects, rowsAtStart, histVars>>

\* The files of the upload calls: two queued pages.
UploadFixtures ==
    {UploadEntry(p, getPageFilePath(p)) :
        p \in {q \in Page : q.space = "DEV" /\ q.title = "Old Title" /\ q.version = 1
                              /\ q.id \in {"1", "2"}}}

\* A call of UploadManager.uploadFilesWithRetry(files, storeName, maxRetries).
UploadFilesWithRetryCall ==
    /\ detOp = "none"
    /\ \E uploadList \in BoundedSeq(UploadFixtures, MaxInputLen) :
       \E maxRetries \in 0..SyncMaxRetries :
       \E failsBefore \in [1..Len(uploadList) -> 0..SyncMaxRetries] :
        /\ detIn' = [files |-> uploadList, failsBefore |-> failsBefore,
                      maxRetries |-> maxRetries]
        /\ detOut' = uploadFilesWithRetry(uploadList, failsBefore, maxRetries)
    /\ detOp' = "uploadFilesWithRetry"
    /\ UNCHANGED <<envVars, storeVars, runVars, histVars>>

\* A call of UploadManager.uploadFiles(files, storeName): each file meets one
\* kind of attempt, and its path may be missing from the disk.
UploadFilesCall ==
    /\ detOp = "none"
    /\ \E uploadList \in BoundedSeq(UploadFixtures, MaxInputLen) :
       \E kinds \in [1..Len(uploadList) -> {"ok"} \cup FailureCauses] :
        /\ detIn' = [files |-> uploadList, kinds |-> kinds]
        /\ detOut' = uploadFiles(uploadList, files,
                            [i \in 1..Len(uploadList) |-> UploadAttempts[kinds[i]]],
                            1, UploadResultsInit(uploadList))
    /\ detOp' = "uploadFiles"
    /\ UNCHANGED <<envVars, storeVars, runVars, histVars>>

\* The operations and status answers of the polling calls.
Operations ==
    {Operation(done, error) :
        done \in BOOLEAN, error \in {NoError, "Processing failed", NoVal}}

\* A call of UploadManager.pollOperation(operation).
PollOperationCall ==
    /\ detOp = "none"
    /\ \E operation \in Operations :
       \E responses \in BoundedSeq(Operations \cup {QueryFailure}, MaxInputLen) :
       \E latency \in {0, maxPollTime} :
        /\ detIn' = [operation |-> operation, responses |-> responses,
                      latency |-> latency]
        /\ detOut' = pollOperation(operation, responses, latency, 0, 0)
    /\ detOp' = "pollOperation"
    /\ UNCHANGED <<envVars, storeVars, runVars, histVars>>

\* The page-size limits and the space sizes of the paginated fetch calls: the
\* default limit and limits that do not divide maxPagesPerSync or exceed it;
\* spaces below, at and above maxPagesPerSync.
FetchLimits == {DefaultLimit, 150, 250, 600}

RemoteSizes == {0, 99, 100, 250, 499, 500, 501, 600, 750, 1200}

\* A call of ConfluenceClient.getAllPages(spaceKey, limit) on a space of the
\* given number of pages, numbered in the server's order.
GetAllPagesCall ==
    /\ detOp = "none"
    /\ \E limit \in FetchLimits :
       \E size \in RemoteSizes :
        LET pages == getAllPagesLoop([i \in 1..size |-> i], limit, <<>>, 0, TRUE)
        IN /\ detIn' = [limit |-> limit, size |-> size]
           /\ detOut' = [count |-> Len(pages),
                         isPrefix |-> pages = [i \in 1..Len(pages) |-> i]]
    /\ detOp' = "getAllPages"
    /\ UNCHANGED <<envVars, storeVars, runVars, histVars>>

\* The remote page a row was written from, and one of the other pages of
\* the space.
PageOfRow(row) ==
    [id |-> row.page_id, space |-> row.space_key, title |-> row.title,
     version |-> row.version]

OtherPage(n) ==
    [id |-> ToString(100 + n), space |-> "DEV", title |-> "Old Title", version |-> 1]

\* What the server lists for space DEV: every page that has a row of that
\* space, unchanged, and a number of pages without a row, listed before or
\* after them.
ServerList(others, storedFirst) ==
    LET rows == getPagesBySpace("DEV")
        stored == [i \in 1..Len(rows) |-> PageOfRow(rows[i])]
        rest == [i \in 1..others |-> OtherPage(i)]
    IN IF storedFirst THEN stored \o rest ELSE rest \o stored

\* The fetch of one space followed by the deletion stage, as sync() runs them
\* in Steps 3 and 8: getPages(spaceKey), detectDeletedPages(allPages),
\* handleDeletedPages(deletedPages).  The stages between them write rows of
\* fetched pages only, which the deletion stage never selects.
SyncSpaceCall ==
    /\ detOp = "none"
    /\ \E others \in RemoteSizes :
       \E storedFirst \in BOOLEAN :
        LET source == ServerList(others, storedFirst)
            pages == getAllPagesLoop(source, DefaultLimit, <<>>, 0, TRUE)
            deletedPages == detectDeletedPages(pages)
            acc == handleDeletedPages(deletedPages,
                        [i \in 1..Len(deletedPages) |-> "ok"], 1,
                        [table |-> synced_pages, disk |-> files, deletes |-> 0])
        IN /\ synced_pages' = acc.table
           /\ files' = acc.disk
           /\ detIn' = [size |-> Len(source), fetched |-> Len(pages),
                         existing |-> {r \in synced_pages : r.space_key = "DEV"}]
           /\ detOut' = deletedPages
    /\ detOp' = "syncSpace"
    /\ UNCHANGED <<envVars, sync_history, file_search_stores, runVars, histVars>>

DetectorNext ==
    \/ DetectChangesCall
    \/ DetectDeletedPagesCall
    \/ HandleDeletedPagesCall
    \/ CleanupCall
    \/ UploadFilesWithRetryCall
    \/ UploadFilesCall
    \/ PollOperationCall
    \/ GetAllPagesCall
    \/ SyncSpaceCall

DetectorSpec == DetectorInit /\ [][DetectorNext]_vars

(***************************************************************************)
(* The read-only methods of ChangeDetector, one call per behaviour, over   *)
(* record stores whose rows may lack a file_path and content directories   *)
(* that miss files of rows and hold files no row points at.                *)
(***************************************************************************)
\* The rows a page id may have: in either space, with or without a file_path.
ReaderRows(id) ==
    UNION {{RowOf(p, getPageFilePath(p)), RowOf(p, NoPath)} :
            p \in {q \in DeletionPages : q.id = id}}

ReaderStores ==
    {a \cup b : a \in {{}} \cup {{r} : r \in ReaderRows("1")},
                b \in {{}} \cup {{r} : r \in ReaderRows("2")}}

\* Files no row points at: markdown at the top of the content directory and
\* below it, a file that is not markdown, and markdown outside the directory.
ExtraFiles ==
    {<<"content", <<"dev", "9", "stale">>, "md">>,
     <<"content", <<"archive">>, <<"dev", "8", "older">>, "md">>,
     <<"content", <<"notes">>, "txt">>,
     <<"elsewhere", <<"dev", "7", "other">>, "md">>}

ReaderInit ==
    /\ remote = {}
    /\ syncSpaceKeys = <<>>
    /\ externalStores = {}
    /\ synced_pages \in ReaderStores
    /\ sync_history = <<>>
    /\ file_search_stores = {}
    /\ \E present \in SUBSET {r.file_path : r \in {q \in synced_pages : q.file_path # NoPath}} :
       \E extras \in {{}, ExtraFiles} :
        files = present \cup extras
    /\ RunIdle
    /\ faults = 0
    /\ pendingUpload = {}
    /\ runs = <<>>
    /\ DetectorIdle

\* A call of ChangeDetector.detectDeletedPagesInSpace(spaceKey, confluencePages).
DetectDeletedPagesInSpaceCall ==
    /\ detOp = "none"
    /\ \E spaceKey \in SpaceKeys :
       \E pages \in BoundedSeq(DeletionPages, MaxInputLen) :
        /\ detIn' = [spaceKey |-> spaceKey, pages |-> pages]
        /\ detOut' = detectDeletedPagesInSpace(spaceKey, pages)
    /\ detOp' = "detectDeletedPagesInSpace"
    /\ UNCHANGED <<envVars, storeVars, runVars, histVars>>

\* A call of ChangeDetector.findMissingFiles().
FindMissingFilesCall ==
    /\ detOp = "none"
    /\ detIn' = <<>>
    /\ detOut' = findMissingFiles
    /\ detOp' = "findMissingFiles"
    /\ UNCHANGED <<envVars, storeVars, runVars, histVars>>

\* findOrphanedFiles unlinking the files it finds, as cleanup does.
FindOrphanedFilesCall_unlink ==
    /\ detOp = "none"
    /\ \E contentDir \in {"content", "missing"} :
        /\ detIn' = contentDir
        /\ detOut' = findOrphanedFiles(contentDir, synced_pages, files)
        /\ files' = files \ findOrphanedFiles(contentDir, synced_pages, files)
    /\ detOp' = "findOrphanedFiles"
    /\ UNCHANGED <<envVars, synced_pages, sync_history, file_search_stores,
                   runVars, histVars>>

\* A call of ChangeDetector.findOrphanedFiles(contentDir).
FindOrphanedFilesCall ==
    /\ detOp = "none"
    /\ \E contentDir \in {"content", "missing"} :
        /\ detIn' = contentDir
        /\ detOut' = findOrphanedFiles(contentDir, synced_pages, files)
    /\ detOp' = "findOrphanedFiles"
    /\ UNCHANGED <<envVars, storeVars, runVars, histVars>>

\* A call of ChangeDetector.generateChangeSummary(confluencePages).
GenerateChangeSummaryCall ==
    /\ detOp = "none"
    /\ \E pages \in InputLists :
        /\ detIn' = pages
        /\ detOut' = generateChangeSummary(pages)
    /\ detOp' = "generateChangeSummary"
    /\ UNCHANGED <<envVars, storeVars, runVars, histVars>>

ReaderNext ==
    \/ DetectChangesCall
    \/ DetectDeletedPagesCall
    \/ DetectDeletedPagesInSpaceCall
    \/ FindMissingFilesCall
    \/ FindOrphanedFilesCall
    \/ GenerateChangeSummaryCall

ReaderSpec == ReaderInit /\ [][ReaderNext]_vars

(***************************************************************************)
(* PageStorage on text.  A text is a sequence of characters; the functions *)
(* below are sanitizeFilename, generateFilename and getPageFilePath on     *)
(* texts, step by step as the code composes them.  One call takes two      *)
(* pages and computes the path of each.                                    *)
(***************************************************************************)
MaxTextLen == 2

Letters == {"a", "b", "x", "A", "B", "X"}
Digits == {"1", "2"}

toLowerCaseChar(c) ==
    CASE c = "A" -> "a"
      [] c = "B" -> "b"
      [] c = "X" -> "x"
      [] OTHER -> c

toLowerCaseText(text) == [i \in 1..Len(text) |-> toLowerCaseChar(text[i])]

\* replace(/\s+/g, '-') and replace(/-+/g, '-'): every run of characters of
\* the class becomes one hyphen.
RECURSIVE ReplaceRuns(_, _, _)
ReplaceRuns(text, class, inRun) ==
    IF text = <<>> THEN <<>>
    ELSE IF Head(text) \in class
    THEN (IF inRun THEN <<>> ELSE <<"-">>) \o ReplaceRuns(Tail(text), class, TRUE)
    ELSE <<Head(text)>> \o ReplaceRuns(Tail(text), class, FALSE)

\* replace(/[^a-zA-Z0-9-_]/g, '')
RemoveSpecial(text) ==
    SelectSeq(text, LAMBDA c : c \in Letters \cup Digits \cup {"-", "_"})

\* replace(/^-|-$/g, ''): a hyphen at the start and one at the end
TrimHyphens(text) ==
    LET s == IF text # <<>> /\ Head(text) = "-" THEN Tail(text) ELSE text
    IN IF s # <<>> /\ s[Len(s)] = "-" THEN SubSeq(s, 1, Len(s) - 1) ELSE s

\* substring(0, 100)
Substring100(text) == SubSeq(text, 1, Min(Len(text), 100))

sanitizeFilenameText(filename) ==
    Substring100(toLowerCaseText(TrimHyphens(
        ReplaceRuns(RemoveSpecial(ReplaceRuns(filename, {" "}, FALSE)),
                    {"-"}, FALSE))))

\* `${page.space.key.toLowerCase()}_${pageId}_${sanitizedTitle}`
generateFilenameText(page) ==
    toLowerCaseText(page.space) \o <<"_">> \o page.id \o <<"_">>
        \o sanitizeFilenameText(page.title)

\* path.join(contentDir, `${filename}.md`)
getPageFilePathText(page) ==
    <<"content", "/">> \o generateFilenameText(page) \o <<".md">>

TextsOver(chars) == UNION {[1..k -> chars] : k \in 1..MaxTextLen}

TextPages ==
    [space : TextsOver({"a", "A", "_"}),
     id : TextsOver({"1", "_"}),
     title : {<<>>, <<"x">>, <<"_", "x">>, <<"A", " ", "!", "-", "b">>}]

PathInit ==
    /\ remote = {}
    /\ syncSpaceKeys = <<>>
    /\ externalStores = {}
    /\ synced_pages = {}
    /\ sync_history = <<>>
    /\ file_search_stores = {}
    /\ files = {}
    /\ RunIdle
    /\ faults = 0
    /\ pendingUpload = {}
    /\ runs = <<>>
    /\ DetectorIdle

\* getPageFilePath called on two pages.
GetPageFilePathCall ==
    /\ detOp = "none"
    /\ \E p \in TextPages :
       \E q \in TextPages :
        /\ detIn' = <<p, q>>
        /\ detOut' = <<getPageFilePathText(p), getPageFilePathText(q)>>
    /\ detOp' = "getPageFilePath"
    /\ UNCHANGED <<envVars, storeVars, runVars, histVars>>

PathNext == GetPageFilePathCall

PathSpec == PathInit /\ [][PathNext]_vars

(***************************************************************************)
(* Properties of the change detector (checked under DetectorSpec).         *)
(***************************************************************************)
InputSpaces == {detIn[i].space : i \in 1..Len(detIn)}
InputIds == {detIn[i].id : i \in 1..Len(detIn)}

\* C1 (scoped deletion): detectDeletedPages never returns a synced record
\* whose space_key is not the space key of some page of the input list.
C1_ScopedDeletion ==
    detOp = "detectDeletedPages" =>
        \A i \in 1..Len(detOut) :
            \E j \in 1..Len(detIn) : detIn[j].space = detOut[i].space_key

\* A call that reports a deletion while the store also holds a row of a space
\* absent from the input, whose id is not in the input either.
C1_Witness ==
    /\ detOp = "detectDeletedPages"
    /\ detOut # <<>>
    /\ \E r \in synced_pages :
        /\ r.space_key \notin InputSpaces
        /\ r.page_id \notin InputIds
        /\ r \notin Range(detOut)

\* C2 (deletion exactness): detectDeletedPages returns exactly the synced
\* records whose space_key is in the set C of the input's space keys and
\* whose page_id is not an input id, each of them once.
C2_DeletionExact ==
    detOp = "detectDeletedPages" =>
        /\ Range(detOut) =
                {r \in synced_pages :
                    r.space_key \in InputSpaces /\ r.page_id \notin InputIds}
        /\ \A i, j \in 1..Len(detOut) : detOut[i] = detOut[j] => i = j

\* Two collections fetched together, a record deleted from each of them.
C2_Witness ==
    /\ detOp = "detectDeletedPages"
    /\ Cardinality(InputSpaces) = 2
    /\ \E i, j \in 1..Len(detOut) : detOut[i].space_key # detOut[j].space_key

\* C3 (classification): detectChanges emits a page with no synced record
\* (NEW) and a page whose version is greater than the record's (UPDATED), and
\* does not emit a page whose record has the same version and title.
C3_Classification ==
    detOp = "detectChanges" =>
        \A i \in 1..Len(detIn) :
            LET page == detIn[i]
                syncedPage == getPage(page.id)
            IN /\ syncedPage = NoRow => page \in Range(detOut)
               /\ (syncedPage # NoRow /\ page.version > syncedPage.version)
                    => page \in Range(detOut)
               /\ (syncedPage # NoRow /\ page.version = syncedPage.version
                        /\ page.title = syncedPage.title)
                    => page \notin Range(detOut)

\* One scan that meets an updated page (emitted) and an unchanged one (not).
C3_Witness ==
    /\ detOp = "detectChanges"
    /\ \E i, j \in 1..Len(detIn) :
        /\ getPage(detIn[i].id) # NoRow
        /\ detIn[i].version > getPage(detIn[i].id).version
        /\ detIn[i].title = getPage(detIn[i].id).title
        /\ detIn[i] \in Range(detOut)
        /\ getPage(detIn[j].id) # NoRow
        /\ detIn[j].version = getPage(detIn[j].id).version
        /\ detIn[j].title = getPage(detIn[j].id).title
        /\ detIn[j] \notin Range(detOut)

\* C4 (rename without version bump): a page whose version equals the
\* record's and whose title differs from the record's is emitted.
C4_RenameDetected ==
    detOp = "detectChanges" =>
        \A i \in 1..Len(detIn) :
            LET page == detIn[i]
                syncedPage == getPage(page.id)
            IN (syncedPage # NoRow /\ page.version = syncedPage.version
                    /\ page.title # syncedPage.title)
                => page \in Range(detOut)

\* A scan of a renamed page at the record's version.
C4_Witness ==
    /\ detOp = "detectChanges"
    /\ \E i \in 1..Len(detIn) :
        /\ getPage(detIn[i].id) # NoRow
        /\ detIn[i].version = getPage(detIn[i].id).version
        /\ detIn[i].title # getPage(detIn[i].id).title
        /\ detIn[i] \in Range(detOut)

\* C5 (version decrease is not a sync trigger): a page whose version is lower
\* than the version of its synced record is never emitted by detectChanges,
\* whatever its title.
C5_VersionDecreaseNotEmitted ==
    detOp = "detectChanges" =>
        \A i \in 1..Len(detIn) :
            LET page == detIn[i]
                syncedPage == getPage(page.id)
            IN (syncedPage # NoRow /\ page.version < syncedPage.version)
                => page \notin Range(detOut)

(***************************************************************************)
(* Properties of sync() (checked under Spec).                              *)
(***************************************************************************)
\* No run in progress and at least one finished: the run variables are those
\* of the last run.
Finished == pc = "idle" /\ runs # <<>>

LastRun == runs[Len(runs)]

IdsOf(pages) == {pages[i].id : i \in 1..Len(pages)}

\* The failures that take sync() out of its stages: to its catch block or,
\* thrown, to its caller.
FatalKinds ==
    {"startSync", "store", "readPage", "readSpace", "completeSync", "failSync"}

\* The failed record-store reads of the change detector.
ReadKinds == {"readPage", "readSpace"}

\* The failures of a run that leave a page unrecorded or a row undeleted.
BlockingKinds == {"store", "fetch", "convert", "save", "upsert", "deleteRecord"}

NoSideEffect(run) ==
    /\ run.stats.pagesAdded = 0
    /\ run.stats.pagesUpdated = 0
    /\ run.stats.pagesDeleted = 0
    /\ run.stats.pagesSkipped = run.fetchedCount
    /\ run.effects = EffectsInit

C7_PartialFailureIsolation ==
    Finished =>
        \A k \in 1..Len(pagesToProcess) :
            (/\ Fault("convert", pagesToProcess[k].id) \in runFaults
             /\ \A f \in runFaults : f.kind \notin FatalKinds)
            => /\ processLog = [i \in 1..Len(pagesToProcess) |-> pagesToProcess[i].id]
               /\ \A j \in (k + 1)..Len(pagesToProcess) :
                    \/ Fault("convert", pagesToProcess[j].id) \in runFaults
                    \/ Fault("save", pagesToProcess[j].id) \in runFaults
                    \/ \E u \in 1..Len(filesToUpload) :
                            filesToUpload[u].pageId = pagesToProcess[j].id
               /\ Cardinality({e \in 1..Len(stats.errors) :
                        stats.errors[e].pageId = pagesToProcess[k].id}) = 1
               /\ LastRun.success
               /\ sync_history[syncId].status = "completed"

\* The first of two pages fails to convert and the second is queued.
C7_Witness ==
    /\ Finished
    /\ Len(pagesToProcess) = 2
    /\ Fault("convert", pagesToProcess[1].id) \in runFaults
    /\ Len(filesToUpload) = 1
    /\ filesToUpload[1].pageId = pagesToProcess[2].id
    /\ LastRun.success

\* C8 (fetch-failure exclusion): when the fetch of a requested collection
\* fails, a 'fetch' error naming it is recorded, the other collections are
\* still fetched and their pages processed, the run completes, and no synced
\* record of the failed collection is deleted in that run.
C8_FetchFailureExclusion ==
    Finished =>
        \A K \in SpaceKeys :
            (/\ fetched[K].status = "error"
             /\ \A f \in runFaults : f.kind \notin FatalKinds) =>
                /\ \E e \in 1..Len(stats.errors) :
                        stats.errors[e].stage = "fetch" /\ stats.errors[e].spaceKey = K
                /\ \A K2 \in Range(syncSpaceKeys) \ {K} :
                        /\ fetched[K2].status # "none"
                        /\ Range(fetched[K2].pages) \subseteq Range(allPages)
                /\ processLog = [i \in 1..Len(pagesToProcess) |-> pagesToProcess[i].id]
                /\ LastRun.success
                /\ sync_history[syncId].status = "completed"
                /\ \A r \in rowsAtStart :
                        r.space_key = K => \E q \in synced_pages : q.page_id = r.page_id

\* The fetch of DEV fails while DEV holds a record of a page that no fetched
\* page carries, PROD is fetched and a page of it is processed.
C8_Witness ==
    /\ Finished
    /\ fetched["DEV"].status = "error"
    /\ fetched["PROD"].status = "ok"
    /\ processLog # <<>>
    /\ \E r \in rowsAtStart : r.space_key = "DEV" /\ r.page_id \notin IdsOf(allPages)

\* C9 (disappeared items are deleted): after a run that fetched collection K
\* without error and met no failure in its delete stage, no synced record
\* with space_key K remains whose page id is absent from the pages fetched
\* for K, also when K was fetched and is empty.
C9_DisappearedDeleted ==
    (/\ Finished
     /\ LastRun.success
     /\ \A f \in runFaults : f.kind \notin {"deleteRecord", "deleteFile"})
    => \A K \in SpaceKeys :
            fetched[K].status = "ok" =>
                \A r \in synced_pages :
                    r.space_key = K => r.page_id \in IdsOf(fetched[K].pages)

\* C10 (at-least-once delivery): a page whose upload failed in one run is
\* uploaded again by a later run that sees the same remote state and meets
\* no failure, so that after such a run no page is left with a failed upload.
C10_AtLeastOnce ==
    (/\ Finished
     /\ Len(runs) >= 2
     /\ LastRun.success
     /\ runFaults = {})
    => pendingUpload = {}

\* The row updateDatabase writes for a queued file.
RecordOf(file) ==
    [page_id |-> file.pageId, space_key |-> file.spaceKey, title |-> file.title,
     version |-> file.version, file_path |-> file.filePath]

\* C11 (persist is decoupled from upload): once Step 7 is done, every page
\* that was converted and saved in the run has its synced record, carrying
\* the page's version, title and artifact path, whether its upload succeeded
\* or failed (unless the upsert of that record itself failed).
C11_PersistDecoupled ==
    pc \notin {"upload", "persist"} =>
        \A u \in 1..Len(filesToUpload) :
            Fault("upsert", filesToUpload[u].pageId) \notin runFaults
                => /\ filesToUpload[u].filePath \in files
                   /\ RecordOf(filesToUpload[u]) \in synced_pages

\* A finished run in which the upload of a saved page failed for good and
\* the page has its record all the same.
C11_Witness ==
    /\ Finished
    /\ LastRun.success
    /\ \E u \in 1..Len(filesToUpload) :
        /\ Fault("upload", filesToUpload[u].pageId) \in runFaults
        /\ filesToUpload[u].pageId \in pendingUpload
        /\ RecordOf(filesToUpload[u]) \in synced_pages
        /\ RecordOf(filesToUpload[u]) \notin rowsAtStart

\* The stages of sync() that act on the index, Confluence, the content
\* directory or the synced_pages table.
EffectStages == {"store", "fetch", "process", "upload", "persist", "delete"}

\* C12 (run ledger first): every step of a run that creates the index,
\* fetches, writes an artifact, uploads, upserts or deletes a record is taken
\* when the run already has its ledger row, inserted last and still
\* 'running'; no such step is taken outside a run.
C12_LedgerFirst ==
    [][(\/ pc \in EffectStages
        \/ synced_pages' # synced_pages
        \/ files' # files
        \/ file_search_stores' # file_search_stores)
       => /\ syncId = Len(sync_history)
          /\ syncId \in DOMAIN sync_history
          /\ sync_history[syncId].status = "running"]_vars

\* A run that created the index, wrote an artifact, uploaded it and upserted
\* its record, with its ledger row still 'running'.
C12_Witness ==
    /\ pc = "delete"
    /\ effects.writes > 0
    /\ effects.uploads > 0
    /\ effects.upserts > 0
    /\ file_search_stores # {}
    /\ rowsAtStart = {}
    /\ sync_history[syncId].status = "running"

\* C13 as stated (run record lifecycle), its last part: every ledger row
\* ends 'completed' or 'failed', so a row is 'running' only while its run is
\* in progress.
C13_EndsAsStated ==
    \A i \in DOMAIN sync_history :
        sync_history[i].status = "running" => (i = syncId /\ pc # "idle")

\* C13 as amended: a ledger row is inserted with status 'running'; it is
\* modified at most once, by its own run, while 'running', and then becomes
\* 'completed' or 'failed'; it is never modified again and no row is ever
\* deleted.  A row is 'running' only while its run is in progress or when
\* that run threw out of its catch block instead of returning.
C13_LedgerLifecycle ==
    /\ [][/\ Len(sync_history') >= Len(sync_history)
          /\ \A i \in DOMAIN sync_history' \ DOMAIN sync_history :
                sync_history'[i] = RunningRow
          /\ \A i \in DOMAIN sync_history :
                sync_history'[i] # sync_history[i]
                    => /\ i = syncId
                       /\ pc \in {"finalize", "catch"}
                       /\ sync_history[i].status = "running"
                       /\ sync_history'[i].status \in {"completed", "failed"}]_vars
    /\ [](\A i \in DOMAIN sync_history :
            /\ sync_history[i].status \in {"running", "completed", "failed"}
            /\ sync_history[i].status = "running"
                => \/ i = syncId /\ pc # "idle"
                   \/ \E n \in 1..Len(runs) : runs[n].syncId = i /\ runs[n].thrown)

\* After two calls: the first run threw out of its catch block and left its
\* row 'running', the second completed.
C13_Witness ==
    /\ pc = "idle"
    /\ Len(sync_history) = 2
    /\ sync_history[1].status = "running"
    /\ runs[1].thrown
    /\ sync_history[2].status = "completed"

\* The place of each stage in the order of sync().
StageRank(stage) ==
    CASE stage = "store" -> 1
      [] stage = "fetch" -> 2
      [] stage = "classify" -> 3
      [] stage = "process" -> 4
      [] stage = "upload" -> 5
      [] stage = "persist" -> 6
      [] stage = "delete" -> 7
      [] stage = "finalize" -> 8
      [] OTHER -> 0

\* C14 (stage ordering): within a run the stages follow one another in the
\* order fetch, classify, process, upload, persist, delete, finalize, none
\* skipped or entered again (a run leaves the order only for its catch
\* block); artifacts are written in the process stage only, records upserted
\* in the persist stage only, and records and artifacts deleted in the delete
\* stage only, hence after every upsert of the run.
C14_StageOrdering ==
    [][/\ pc' # pc =>
            \/ pc = "idle" /\ pc' = "store"
            \/ StageRank(pc) >= 1 /\ StageRank(pc') = StageRank(pc) + 1
            \/ pc \in {"store", "classify", "delete", "finalize"} /\ pc' = "catch"
            \/ pc \in {"finalize", "catch"} /\ pc' = "idle"
       /\ (\E r \in synced_pages' : r \notin synced_pages) => pc = "persist"
       /\ (\E r \in synced_pages :
                \A q \in synced_pages' : q.page_id # r.page_id) => pc = "delete"
       /\ (\E f \in files' : f \notin files) => pc = "process"
       /\ (\E f \in files : f \notin files') => pc = "delete"]_vars

\* A run at its finalize stage that upserted a record and deleted another.
C14_Witness ==
    /\ pc = "finalize"
    /\ effects.writes > 0
    /\ effects.upserts > 0
    /\ effects.deletes > 0

LedgerKinds == {"startSync", "completeSync", "failSync"}

\* The run of summary run got past Step 1 and so reached its finalize stage.
ReachedFinalize(run) ==
    \A f \in run.faults : f.kind \notin {"startSync", "store", "readPage", "readSpace"}

\* C15 (success flag): a call of sync() that reached finalize returns
\* success = true, also with a non-empty error list; a returned result has
\* success = true exactly when the run's ledger row is 'completed' and
\* success = false exactly when it is 'failed'.
C15_SuccessFlag ==
    \A n \in 1..Len(runs) :
        ~runs[n].thrown =>
            /\ ReachedFinalize(runs[n]) => runs[n].success
            /\ runs[n].success <=> sync_history[runs[n].syncId].status = "completed"
            /\ ~runs[n].success <=> sync_history[runs[n].syncId].status = "failed"

\* The entry of the error list that reports failure f of the run, if any.
Reported(f) ==
    \E e \in 1..Len(stats.errors) :
        LET err == stats.errors[e] IN
        CASE f.kind = "fetch" -> err.stage = "fetch" /\ err.spaceKey = f.ref
          [] f.kind \in {"convert", "save"} ->
                err.stage = "process" /\ err.pageId = f.ref
          [] f.kind = "upload" ->
                /\ err.stage = "upload"
                /\ \E u \in 1..Len(filesToUpload) :
                    /\ filesToUpload[u].pageId = f.ref
                    /\ err.file = filesToUpload[u].displayName
          [] OTHER -> err.stage \notin {"fetch", "process", "upload"} /\ err.pageId = f.ref

\* C16 (error collection): every recoverable failure caught during a run
\* (fetch of a collection, conversion, save, upload given up after its
\* retries, record upsert, record or artifact deletion) has an entry in the
\* error list of the result sync() returns.
C16_ErrorCollection ==
    (Finished /\ ~LastRun.thrown) =>
        \A f \in runFaults :
            (/\ f.kind \notin FatalKinds
             /\ f.kind = "upload" => f.ref \in pendingUpload)
            => Reported(f)

\* C18 (fatal ledger errors): a call of sync() that met an error of
\* startSync, completeSync or failSync throws to its caller instead of
\* returning a result, and one whose startSync failed had no side effect.
C18_FatalLedgerErrors ==
    \A n \in 1..Len(runs) :
        /\ (\E f \in runs[n].faults : f.kind \in LedgerKinds) => runs[n].thrown
        /\ Fault("startSync", NoVal) \in runs[n].faults
            => runs[n].effects = EffectsInit /\ runs[n].fetchedCount = 0

\* The rows detectDeletedPages(allPages) finds at Step 8: the upserts of
\* Step 7 only touch rows of fetched pages, which are never among them.
DeletableAtStart ==
    {r \in rowsAtStart :
        /\ r.space_key \in {allPages[i].space : i \in 1..Len(allPages)}
        /\ r.page_id \notin IdsOf(allPages)}

\* C19 (force full sync): with forceFullSync every fetched page is taken up
\* by Step 5 (converted, saved and queued unless it fails there), whatever
\* its synced record, pagesSkipped is 0, and the deleted pages are those of
\* detectDeletedPages over the fetched pages, as in an incremental run.
C19_ForceFullSync ==
    (Finished /\ force /\ ReachedFinalize(LastRun)) =>
        /\ pagesToProcess = allPages
        /\ processLog = [i \in 1..Len(allPages) |-> allPages[i].id]
        /\ \A i \in 1..Len(allPages) :
            \/ Fault("convert", allPages[i].id) \in runFaults
            \/ Fault("save", allPages[i].id) \in runFaults
            \/ \E u \in 1..Len(filesToUpload) :
                /\ filesToUpload[u].pageId = allPages[i].id
                /\ filesToUpload[u].filePath \in files
        /\ stats.pagesSkipped = 0
        /\ stats.pagesDeleted = Cardinality(DeletableAtStart)
        /\ \A r \in DeletableAtStart :
            Fault("deleteRecord", r.page_id) \notin runFaults => r \notin synced_pages

\* A forced run that took up a page whose record was up to date and deleted
\* the record of a page that had disappeared.
C19_Witness ==
    /\ Finished
    /\ force
    /\ LastRun.success
    /\ \E i \in 1..Len(allPages) :
        \E r \in rowsAtStart :
            /\ r.page_id = allPages[i].id
            /\ r.version = allPages[i].version
            /\ r.title = allPages[i].title
            /\ allPages[i].id \in Range(processLog)
    /\ effects.deletes > 0
    /\ stats.pagesDeleted > 0

(***************************************************************************)
(* Properties of single method calls (checked under DetectorSpec).         *)
(***************************************************************************)
\* C17 (independent deletions): in handleDeletedPages and in cleanup, a
\* failure to remove the record or the artifact of one page leaves the other
\* pages of the list untouched by it: the call walks the whole list and
\* returns, every page whose record removal did not fail has lost its
\* record, and every page that met no failure has lost its artifact too.
C17_IndependentDeletions ==
    detOp \in {"handleDeletedPages", "cleanup"} =>
        /\ \A j \in 1..Len(detIn) :
            /\ Fault("deleteRecord", detIn[j].page_id) \notin runFaults
                => getPage(detIn[j].page_id) = NoRow
            /\ (\A f \in runFaults : f.ref # detIn[j].page_id)
                => detIn[j].file_path \notin files
        /\ detOp = "handleDeletedPages" =>
                detOut = Cardinality({j \in 1..Len(detIn) :
                            Fault("deleteRecord", detIn[j].page_id) \notin runFaults})
        /\ detOp = "cleanup" =>
                /\ detOut.deletedPages = Cardinality({j \in 1..Len(detIn) :
                            Fault("deleteRecord", detIn[j].page_id) \notin runFaults})
                /\ \A f \in runFaults :
                        \E e \in 1..Len(detOut.errors) : detOut.errors[e].pageId = f.ref

\* handleDeletedPages on two pages: removing the record of the first fails,
\* the second loses its record and its artifact.
C17_Witness ==
    /\ detOp = "handleDeletedPages"
    /\ Len(detIn) = 2
    /\ runFaults = {Fault("deleteRecord", detIn[1].page_id)}
    /\ getPage(detIn[1].page_id) # NoRow
    /\ getPage(detIn[2].page_id) = NoRow
    /\ detIn[2].file_path \notin files

RECURSIVE SumTo(_, _)
SumTo(f, n) == IF n = 0 THEN 0 ELSE f[n] + SumTo(f, n - 1)

\* C20 (bounded upload retry): for each file uploadFilesWithRetry calls
\* uploadFile until the first success and at most maxRetries times; a file
\* is counted failed only after maxRetries failed attempts, with an error
\* entry of attempts = maxRetries; a file that succeeds on a retry is counted
\* successful and not failed.
C20_BoundedRetry ==
    detOp = "uploadFilesWithRetry" =>
        LET n == Len(detIn.files)
            m == detIn.maxRetries
            attempts == [i \in 1..n |->
                            IF detIn.failsBefore[i] < m
                            THEN detIn.failsBefore[i] + 1 ELSE m]
            succeeding == {i \in 1..n : detIn.failsBefore[i] < m}
            failing == {i \in 1..n : detIn.failsBefore[i] >= m /\ m > 0}
        IN /\ detOut.calls = SumTo(attempts, n)
           /\ detOut.calls <= n * m
           /\ detOut.successful = Cardinality(succeeding)
           /\ Len(detOut.uploaded) = Cardinality(succeeding)
           /\ detOut.failed = Cardinality(failing)
           /\ Len(detOut.errors) = Cardinality(failing)
           /\ \A e \in 1..Len(detOut.errors) :
                /\ detOut.errors[e].attempts = m
                /\ \E i \in failing :
                    detOut.errors[e].file = detIn.files[i].displayName

\* Three attempts allowed: one file fails three times and is counted failed,
\* the other succeeds on its third attempt.
C20_Witness ==
    /\ detOp = "uploadFilesWithRetry"
    /\ detIn.maxRetries = 3
    /\ Len(detIn.files) = 2
    /\ detIn.failsBefore = <<3, 2>>
    /\ detOut.successful = 1
    /\ detOut.failed = 1
    /\ detOut.calls = 6
    /\ detOut.errors[1].attempts = 3

\* C21 (poll result): pollOperation returns an operation only if it is done
\* without an error; it makes no status query when the operation is done at
\* entry, and otherwise queries again after every answer that is not done;
\* a call that neither timed out nor met a failed query ends on a done
\* operation; it throws 'Operation failed' exactly when it ends on a done
\* operation with an error, and 'Operation polling failed' exactly when a
\* status query failed.
C21_PollResult ==
    detOp = "pollOperation" =>
        LET rs == detIn.responses
            q == detOut.queries
        IN /\ detOut.kind = "return" =>
                (detOut.operation.done /\ detOut.operation.error = NoError)
           /\ detIn.operation.done => q = 0
           /\ \A k \in 1..q :
                (k < q /\ k <= Len(rs)) => (~rs[k].throws /\ ~rs[k].done)
           /\ (q >= 1 /\ q <= Len(rs) /\ ~rs[q].throws) =>
                detOut.operation = rs[q]
           /\ q = 0 => detOut.operation = detIn.operation
           /\ detOut.message \notin {"Operation timed out after 5 minutes",
                                     "Operation polling failed"} =>
                detOut.operation.done
           /\ (detOut.kind = "throw" /\ detOut.message = "Operation failed") <=>
                (detOut.operation.done /\ detOut.operation.error # NoError)
           /\ (detOut.kind = "throw" /\ detOut.message = "Operation polling failed") <=>
                (q >= 1 /\ q <= Len(rs) /\ rs[q].throws)

\* An operation pending at entry and at the first query, done without an
\* error at the second: returned after two queries.
C21_Witness ==
    /\ detOp = "pollOperation"
    /\ ~detIn.operation.done
    /\ Len(detIn.responses) = 2
    /\ ~detIn.responses[1].done /\ ~detIn.responses[1].throws
    /\ detIn.responses[2] = Operation(TRUE, NoError)
    /\ detOut.kind = "return"
    /\ detOut.queries = 2

ProcessErrors(run) ==
    Cardinality({e \in 1..Len(run.stats.errors) : run.stats.errors[e].stage = "process"})

\* The attempt each queued file of the last call met first.
FirstAttempts ==
    [i \in 1..Len(filesToUpload) |->
        IF \E u \in LastRun.effects.failedAttempts : u.pageId = filesToUpload[i].pageId
        THEN UploadAttempts[(CHOOSE u \in LastRun.effects.failedAttempts :
                                u.pageId = filesToUpload[i].pageId).cause]
        ELSE UploadAttempts.ok]

\* C22 (upload failures are item failures): an upload-and-poll that times
\* out, ends with an indexing error or fails in transport makes uploadFile
\* throw; the batch upload counts exactly those files failed and uploads the
\* others; and a sync() call that met such failures and no fatal failure
\* returns success = true with its ledger row 'completed', every file whose
\* retries were not exhausted uploaded, and pagesErrored equal to the
\* processing errors plus the number of failed uploads.
C22_UploadFailureIsItemFailure ==
    (/\ Finished
     /\ LastRun.effects.failedAttempts # {}
     /\ \A f \in LastRun.faults : f.kind \notin FatalKinds) =>
        LET run == LastRun
            paths == {filesToUpload[i].filePath : i \in 1..Len(filesToUpload)}
            failedUploads == {u \in run.effects.failedAttempts : u.exhausted}
            batch == uploadFiles(filesToUpload, paths, FirstAttempts, 1,
                                 UploadResultsInit(filesToUpload))
        IN /\ \A u \in run.effects.failedAttempts :
                \A path \in paths :
                    uploadFile(path, paths, UploadAttempts[u.cause]).kind = "throw"
           /\ batch.failed = Cardinality(run.effects.failedAttempts)
           /\ batch.successful = Len(filesToUpload) - batch.failed
           /\ run.success
           /\ sync_history[run.syncId].status = "completed"
           /\ run.effects.uploads = Len(filesToUpload) - Cardinality(failedUploads)
           /\ run.stats.pagesErrored = ProcessErrors(run) + Cardinality(failedUploads)

\* Two files queued: every upload of one timed out, the other was uploaded,
\* and the call succeeded with one errored page.
C22_Witness ==
    /\ Finished
    /\ Len(filesToUpload) = 2
    /\ \E u \in LastRun.effects.failedAttempts : u.cause = "timeout" /\ u.exhausted
    /\ LastRun.effects.uploads = 1
    /\ LastRun.success
    /\ LastRun.stats.pagesErrored = 1
    /\ sync_history[LastRun.syncId].status = "completed"

\* C23 (index reference idempotence), as stated: a call that finds a stored
\* reference creates no store, and over every sequence of getOrCreateStore
\* calls, those whose create or save fails included, at most one external
\* store is created and the reference cache holds at most one row.
C23_StoreIdempotence ==
    /\ Cardinality(externalStores) <= 1
    /\ Cardinality(file_search_stores) <= 1
    /\ (pc = "store" /\ getFileSearchStore(file_search_stores) # NoStore) =>
            ~ENABLED CreateStore

\* C24 (missing artifacts): findMissingFiles returns exactly the rows of
\* synced_pages whose file_path is empty or names no file on disk.
C24_MissingFiles ==
    detOp = "findMissingFiles" =>
        /\ Range(detOut) =
                {r \in synced_pages : r.file_path = NoPath \/ r.file_path \notin files}
        /\ \A i, j \in 1..Len(detOut) : detOut[i] = detOut[j] => i = j

\* Two rows, one without a file_path and one whose file is gone: both returned.
C24_Witness ==
    /\ detOp = "findMissingFiles"
    /\ Len(detOut) = 2
    /\ \E r \in synced_pages : r.file_path = NoPath
    /\ \E r \in synced_pages : r.file_path # NoPath /\ r.file_path \notin files

\* C25 (orphaned artifacts): findOrphanedFiles returns exactly the markdown
\* files under the content directory, at any depth, whose path is the
\* file_path of no row of synced_pages; it returns nothing when the content
\* directory does not exist, and never a path some row refers to.
C25_OrphanedFiles ==
    detOp = "findOrphanedFiles" =>
        /\ detOut = {f \in files : /\ f[1] = detIn
                                   /\ f[Len(f)] = "md"
                                   /\ \A r \in synced_pages : r.file_path # f}
        /\ (\A f \in files : f[1] # detIn) => detOut = {}
        /\ \A r \in synced_pages : r.file_path \notin detOut

\* A content directory holding the file of a row and two markdown files, one
\* of them in a subdirectory, that no row points at: those two are returned.
C25_Witness ==
    /\ detOp = "findOrphanedFiles"
    /\ detIn = "content"
    /\ \E r \in synced_pages : r.file_path \in files
    /\ Cardinality(detOut) = 2
    /\ \E f \in detOut : Len(f) = 4

RECURSIVE IsSubsequence(_, _)
IsSubsequence(s, t) ==
    IF s = <<>> THEN TRUE
    ELSE IF t = <<>> THEN FALSE
    ELSE IF Head(s) = Head(t) THEN IsSubsequence(Tail(s), Tail(t))
    ELSE IsSubsequence(s, Tail(t))

\* C26 (result is a subsequence): the list detectChanges returns is a
\* subsequence of its input, in input order (no page invented, repeated or
\* moved), and its new, updated and unchanged counts add up to the length of
\* the input, the returned pages being the new and the updated ones.
C26_Subsequence ==
    detOp = "detectChanges" =>
        LET counts == detectChangesFull(detIn).stats
        IN /\ IsSubsequence(detOut, detIn)
           /\ counts.new + counts.updated + counts.unchanged = Len(detIn)
           /\ counts.total = Len(detIn)
           /\ Len(detOut) = counts.new + counts.updated

\* Two pages in, the first new and the second updated: both returned, in
\* that order.
C26_Witness ==
    /\ detOp = "detectChanges"
    /\ Len(detIn) = 2
    /\ detIn[1].id # detIn[2].id
    /\ getPage(detIn[1].id) = NoRow
    /\ getPage(detIn[2].id) # NoRow
    /\ detOut = detIn

\* C27 (per-space deletion): detectDeletedPagesInSpace(spaceKey, pages)
\* returns exactly the rows of spaceKey whose page_id is the id of no page
\* given (all rows of the space when no page is given), never a row of
\* another space; and when the pages given are not empty and all belong to
\* spaceKey, it returns the same rows as detectDeletedPages(pages).
C27_DeletedInSpace ==
    detOp = "detectDeletedPagesInSpace" =>
        LET spaceKey == detIn.spaceKey
            pages == detIn.pages
        IN /\ Range(detOut) =
                {r \in synced_pages : /\ r.space_key = spaceKey
                                      /\ r.page_id \notin IdsOf(pages)}
           /\ \A i, j \in 1..Len(detOut) : detOut[i] = detOut[j] => i = j
           /\ pages = <<>> =>
                Range(detOut) = {r \in synced_pages : r.space_key = spaceKey}
           /\ \A i \in 1..Len(detOut) : detOut[i].space_key = spaceKey
           /\ (pages # <<>> /\ \A i \in 1..Len(pages) : pages[i].space = spaceKey) =>
                detOut = detectDeletedPages(pages)

\* A row in each space, a page of DEV with another id given: the row of DEV
\* is returned, the row of PROD is not, as detectDeletedPages does.
C27_Witness ==
    /\ detOp = "detectDeletedPagesInSpace"
    /\ detIn.spaceKey = "DEV"
    /\ Len(detIn.pages) = 1
    /\ detIn.pages[1].space = "DEV"
    /\ \E r \in synced_pages : r.space_key = "PROD" /\ r.page_id # detIn.pages[1].id
    /\ Len(detOut) = 1
    /\ detOut[1].space_key = "DEV"
    /\ detOut = detectDeletedPages(detIn.pages)

\* C28 (fetch bound), as stated: for every page-size limit and every size of
\* the space, getAllPages returns at most maxPagesPerSync pages.
C28_FetchBound ==
    detOp = "getAllPages" => detOut.count <= maxPagesPerSync

\* C29 (one record per id): synced_pages never holds two rows with the same
\* page_id; and after the upserts of a sync() call every queued page whose
\* upsert did not fail has exactly one row, holding the space, title,
\* version and file path of the upsert, a page that already had a row being
\* counted updated and adding no row.
C29_OneRecordPerId ==
    /\ \A r1, r2 \in synced_pages : r1.page_id = r2.page_id => r1 = r2
    /\ pc = "delete" =>
        /\ \A i \in 1..Len(filesToUpload) :
            LET page == filesToUpload[i] IN
            Fault("upsert", page.pageId) \notin runFaults =>
                {r \in synced_pages : r.page_id = page.pageId} =
                    {[page_id |-> page.pageId, space_key |-> page.spaceKey,
                      title |-> page.title, version |-> page.version,
                      file_path |-> page.filePath]}
        /\ Cardinality(synced_pages) = Cardinality(rowsAtStart) + stats.pagesAdded

\* The upsert of a page that had a row in another space, under another
\* title, version and file path: one row remains, with the new values.
C29_Witness ==
    /\ pc = "delete"
    /\ \E r0 \in rowsAtStart :
       \E r \in synced_pages :
        /\ r.page_id = r0.page_id
        /\ r.space_key # r0.space_key
        /\ r.title # r0.title
        /\ r.version # r0.version
        /\ r.file_path # r0.file_path
        /\ Cardinality({q \in synced_pages : q.page_id = r.page_id}) = 1
    /\ stats.pagesUpdated > 0

ReadOnlyMethods ==
    {"detectChanges", "detectDeletedPages", "detectDeletedPagesInSpace",
     "findMissingFiles", "findOrphanedFiles", "generateChangeSummary"}

\* C30 (change detection is read-only): a call of detectChanges,
\* detectDeletedPages, detectDeletedPagesInSpace, findMissingFiles,
\* findOrphanedFiles or generateChangeSummary leaves synced_pages,
\* sync_history, file_search_stores and the files on disk as they were.
C30_ReadOnly ==
    [][detOp' \in ReadOnlyMethods =>
            UNCHANGED <<synced_pages, sync_history, file_search_stores, files>>]_vars

\* A summary computed over a store with a row whose file is missing and a
\* directory with orphaned files: it reports the need to sync.
C30_Witness ==
    /\ detOp = "generateChangeSummary"
    /\ detOut.issues.missingFiles > 0
    /\ detOut.changes.deleted > 0
    /\ detOut.changes.new > 0
    /\ detOut.needsSync
    /\ findOrphanedFiles("content", synced_pages, files) # {}

\* C31 (failed read aborts the run), as stated: a call of sync() in which a
\* record-store read of the change detector threw returns success = false
\* and leaves its ledger row 'failed' with the error message.
C31_AsStated ==
    \A n \in 1..Len(runs) :
        (\E f \in runs[n].faults : f.kind \in ReadKinds) =>
            /\ ~runs[n].success
            /\ ~runs[n].thrown
            /\ sync_history[runs[n].syncId].status = "failed"
            /\ sync_history[runs[n].syncId].error # NoVal

\* C31 as amended: a call of sync() in which a record-store read of the
\* change detector threw runs no later stage (after a failed read of Step 4
\* it writes no file, uploads nothing, upserts and deletes no record; after
\* a failed read of Step 8 it deletes nothing) and never completes its
\* ledger row; it returns success = false with the row 'failed' and carrying
\* the error message, unless failSync itself throws, in which case sync()
\* throws and the row stays 'running'.
C31_FailedReadAborts ==
    /\ \A n \in 1..Len(runs) :
        (\E f \in runs[n].faults : f.kind \in ReadKinds) =>
            LET run == runs[n]
                row == sync_history[run.syncId]
            IN /\ ~run.success
               /\ Fault("readPage", NoVal) \in run.faults => run.effects = EffectsInit
               /\ run.effects.deletes = 0
               /\ run.stats.pagesDeleted = 0
               /\ IF Fault("failSync", NoVal) \in run.faults
                  THEN run.thrown /\ row.status = "running"
                  ELSE /\ ~run.thrown
                       /\ row.status = "failed"
                       /\ row.completed
                       /\ row.error # NoVal
    /\ (\E f \in runFaults : f.kind \in ReadKinds) => pc \in {"catch", "idle"}

\* A run whose Step 8 read failed after it had upserted a record: nothing
\* was deleted, the row is 'failed' and the result has success = false.
C31_Witness ==
    /\ Finished
    /\ Fault("readSpace", NoVal) \in LastRun.faults
    /\ LastRun.effects.upserts > 0
    /\ ~LastRun.success
    /\ ~LastRun.thrown
    /\ sync_history[LastRun.syncId].status = "failed"
    /\ sync_history[LastRun.syncId].error # NoVal

(***************************************************************************)
(* C32.  No false deletion: fetching a space and running the deletion      *)
(* stage never removes the record or the artifact of a page the space      *)
(* still holds remotely, whatever the size of the space, spaces of more    *)
(* than maxPagesPerSync pages included.                                    *)
(***************************************************************************)
C32_NoFalseDeletion ==
    detOp = "syncSpace" =>
        \A r \in detIn.existing : r \in synced_pages /\ r.file_path \in files


(***************************************************************************)
(* C33.  Count accuracy: when a run reaches its end, pagesAdded is the     *)
(* number of records it created, pagesUpdated the number of records that   *)
(* existed before and that it upserted, pagesDeleted the number of records *)
(* it removed and pagesSkipped the number of fetched pages it did not      *)
(* select; the ledger row of a completed run carries the same numbers.     *)
(***************************************************************************)
CreatedRows == {r \in synced_pages : \A q \in rowsAtStart : q.page_id # r.page_id}

C33_CountAccuracy ==
    /\ pc = "finalize" =>
        /\ stats.pagesAdded = Cardinality(CreatedRows)
        /\ stats.pagesUpdated = effects.upserts - Cardinality(CreatedRows)
        /\ stats.pagesDeleted = effects.deletes
        /\ stats.pagesSkipped = Len(allPages) - Len(pagesToProcess)
    /\ \A n \in 1..Len(runs) :
        runs[n].success =>
            LET row == sync_history[runs[n].syncId] IN
            /\ row.pages_added = runs[n].stats.pagesAdded
            /\ row.pages_updated = runs[n].stats.pagesUpdated
            /\ row.pages_deleted = runs[n].stats.pagesDeleted
            /\ row.pages_skipped = runs[n].stats.pagesSkipped


(***************************************************************************)
(* C34.  Failed item keeps its record: a page whose conversion or save     *)
(* fails is not staged for upload and its record is neither created nor    *)
(* modified by the run, so the next incremental run over the same remote   *)
(* state, when it fetches the page, selects it again.                      *)
(***************************************************************************)
FailedItems(fs) == {f.ref : f \in {g \in fs : g.kind \in {"convert", "save"}}}

FailedItemUntouched ==
    \A id \in FailedItems(runFaults) :
        /\ TableGet(synced_pages, id) = TableGet(rowsAtStart, id)
        /\ \A i \in 1..Len(filesToUpload) : filesToUpload[i].pageId # id

C35_NoDrift ==
    (pc = "idle" /\ Len(runs) = 1 /\ LastRun.success /\ LastRun.stats.errors = <<>>) =>
        /\ findMissingFiles = <<>>
        /\ findOrphanedFiles("content", synced_pages, files) = {}

(***************************************************************************)
(* C36.  Upload accounting: for any list of files and any maxRetries, the  *)
(* results of uploadFiles and of uploadFilesWithRetry count every file     *)
(* once: successful + failed = total = the number of files, and the error  *)
(* list has one entry per failed file.                                     *)
(***************************************************************************)
C36_UploadAccounting ==
    detOp \in {"uploadFiles", "uploadFilesWithRetry"} =>
        /\ detOut.total = Len(detIn.files)
        /\ detOut.successful + detOut.failed = detOut.total
        /\ Len(detOut.errors) = detOut.failed


(***************************************************************************)
(* C37.  Polling terminates: when every status query returns and each      *)
(* iteration takes at least pollInterval, pollOperation ends after at most *)
(* maxPollTime / pollInterval + 1 status queries, by returning a done      *)
(* operation or by throwing: the timeout, thrown only once more than       *)
(* maxPollTime has elapsed and at the first iteration that starts so late, *)
(* the operation's error, or the polling failure.                          *)
(***************************************************************************)
C37_PollingTerminates ==
    detOp = "pollOperation" =>
        LET q == detOut.queries
            step == pollInterval + detIn.latency
        IN /\ q <= maxPollTime \div pollInterval + 1
           /\ \/ detOut.kind = "return" /\ detOut.operation.done
              \/ /\ detOut.kind = "throw"
                 /\ detOut.message \in {"Operation timed out after 5 minutes",
                                        "Operation failed", "Operation polling failed"}
           /\ detOut.message = "Operation timed out after 5 minutes" =>
                /\ q * step > maxPollTime
                /\ (q - 1) * step <= maxPollTime

\* An operation that stays pending, each query answered at once: the
\* timeout is thrown after 151 status queries.
C37_Witness ==
    /\ detOp = "pollOperation"
    /\ ~detIn.operation.done
    /\ detIn.responses = <<>>
    /\ detIn.latency = 0
    /\ detOut.kind = "throw"
    /\ detOut.message = "Operation timed out after 5 minutes"
    /\ detOut.queries = maxPollTime \div pollInterval + 1


(***************************************************************************)
(* C38.  Abandoned runs stay visible and isolated: the ledger row of a run *)
(* that stopped after startSync without reaching completeSync or a         *)
(* successful failSync stays 'running', without a completion time, through *)
(* the later runs; completeSync and failSync change no row but the one of  *)
(* their own run; getLastSync returns the row of the run started last.     *)
(***************************************************************************)
\* The id of the ledger row of the run that started last (0: no run has
\* inserted a row).
LastStartedId ==
    IF pc # "idle" THEN syncId
    ELSE LET ns == {n \in 1..Len(runs) : runs[n].syncId # 0} IN
         IF ns = {} THEN 0
         ELSE runs[CHOOSE n \in ns : \A m \in ns : m <= n].syncId

OnlyOwnRow ==
    pc \in {"finalize", "catch"} =>
        /\ Len(sync_history') = Len(sync_history)
        /\ \A i \in DOMAIN sync_history :
                i # syncId => sync_history'[i] = sync_history[i]

C38_AbandonedRuns ==
    /\ [][OnlyOwnRow]_vars
    /\ [](\A n \in 1..Len(runs) :
            (runs[n].thrown /\ runs[n].syncId # 0) =>
                /\ sync_history[runs[n].syncId].status = "running"
                /\ ~sync_history[runs[n].syncId].completed)
    /\ [](/\ getLastSync.id = LastStartedId
          /\ sync_history # <<>> => getLastSync.row = sync_history[LastStartedId])

\* The first run threw out of its catch block; a second run has finished
\* since: the first row is still 'running' and getLastSync returns the
\* second.
C38_Witness ==
    /\ pc = "idle"
    /\ Len(runs) = 2
    /\ runs[1].thrown /\ runs[1].syncId = 1
    /\ sync_history[1].status = "running" /\ ~sync_history[1].completed
    /\ runs[2].syncId = 2
    /\ sync_history[2].completed
    /\ getLastSync.id = 2

(***************************************************************************)
(* C39.  Artifact path uniqueness: two pages that differ in their space    *)
(* key or in their page id get different file paths from getPageFilePath,  *)
(* whatever their titles.                                                  *)
(***************************************************************************)
C39_PathUniqueness ==
    detOp = "getPageFilePath" =>
        (<<detIn[1].space, detIn[1].id>> # <<detIn[2].space, detIn[2].id>>
            => detOut[1] # detOut[2])

====
